---- MODULE Spec2Model ----
(***************************************************************************)
(* The kanban board page (src/src/js/board.js) and its API client          *)
(* (src/src/js/api.js) as a state machine.                                 *)
(*                                                                         *)
(* The page keeps the board three times: the server's board (behind the    *)
(* REST API), the in-memory `columns` array, and the rendered DOM.  A drag *)
(* gesture changes the DOM at once, submits one request, and changes       *)
(* `columns` when the response arrives.  Requests are asynchronous: the    *)
(* handler that awaits one is suspended and other handlers run meanwhile.  *)
(*                                                                         *)
(* A task gesture (dragstart, drop, dragend of one .task) is one step: the  *)
(* listeners read only the DOM and draggedTask, and no other handler       *)
(* changes what they read while the drag lasts unless it removes the       *)
(* dragged element from the document.  A column drag is two steps, because *)
(* a suspended drop listener that resumes while a column is being dragged  *)
(* runs its column block (line 437) with that column.  The user never      *)
(* drops an element that a re-render has removed from the document.        *)
(***************************************************************************)
EXTENDS Integers, Sequences, FiniteSets, TLC

\* ------------------------------------------------------------- bounds
\* Requests that may be in flight when the user starts another one.
MaxInFlight == 2
\* Drags that may submit a request, over one behaviour.
MaxGestures == 2
\* Requests that fail (rejected, or answered with the response lost), over one
\* behaviour.
MaxFaults == 1

\* ---------------------------------------------------- the mock board
\* Column and task ids of the test fixture mockBoardData.
ColIds == {1, 2, 3}
TaskIds == {101, 102, 201}

\* Tokens the API issues; mock-auth-token-12345 is the one of mockAuthResponse.
Tokens == {"mock-auth-token-12345", "mock-auth-token-67890"}
NoToken == <<>>

VARIABLES
    server,         \* the board the API serves: [cols, tasks]
    columns,        \* let columns: the in-memory board
    dom,            \* #kanban-board: the .column elements and their .task children
    view,           \* which of loading-state / error-state / kanban-board is shown
    net,            \* requests in flight, each with the handler suspended on it
    draggedColumn,  \* let draggedColumn: <<>> for null
    gestures,       \* drags that could submit a request so far
    faults,         \* requests that failed so far
    lastOp,         \* the listener or resumed handler that ran last
    token,          \* localStorage 'auth_token': <<>> when none is stored
    page,           \* the document the window shows
    location,       \* window.location.href assigned, the document not loaded yet
    modal           \* the modal that has the class show: "" for none

vars ==
    <<server, columns, dom, view, net, draggedColumn, gestures, faults, lastOp,
      token, page, location, modal>>

\* ------------------------------------------------------ sequences
\* Array.prototype.indexOf, 1-based: 0 stands for -1.
IndexOf(s, x) ==
    IF \E i \in 1..Len(s) : s[i] = x
    THEN CHOOSE i \in 1..Len(s) : s[i] = x /\ \A j \in 1..(i - 1) : s[j] # x
    ELSE 0

\* Array.prototype.findIndex(e => e.id === id), 1-based: 0 stands for -1.
FindIndexById(s, id) ==
    IF \E i \in 1..Len(s) : s[i].id = id
    THEN CHOOSE i \in 1..Len(s) : s[i].id = id /\ \A j \in 1..(i - 1) : s[j].id # id
    ELSE 0

\* Array.prototype.splice(i, 1): the array without its element i.
SpliceOut(s, i) == [k \in 1..(Len(s) - 1) |-> IF k < i THEN s[k] ELSE s[k + 1]]

\* The array with x put in as element i.
InsertAt(s, i, x) ==
    [k \in 1..(Len(s) + 1) |-> IF k < i THEN s[k] ELSE IF k = i THEN x ELSE s[k - 1]]

\* Array.prototype.filter(e => e !== x).
Without(s, x) == SelectSeq(s, LAMBDA e : e # x)

\* Array.prototype.sort with a comparator ka - kb: stable, ascending by key.
\* key[i] is the key of s[i].
StableSort(s, key) ==
    LET rank(i) == 1 + Cardinality({j \in 1..Len(s) :
                        key[j] < key[i] \/ (key[j] = key[i] /\ j < i)})
    IN  [k \in 1..Len(s) |-> s[CHOOSE i \in 1..Len(s) : rank(i) = k]]

Ids(s) == [i \in 1..Len(s) |-> s[i].id]

\* newOrder.find(o => o.id === id)?.order || 0
OrderIn(newOrder, id) ==
    IF FindIndexById(newOrder, id) = 0 THEN 0
    ELSE newOrder[FindIndexById(newOrder, id)].order

\* --------------------------------------------------------- the DOM
\* Node.nextSibling among the elements of a container: <<>> for null.
NextSibling(s, i) == IF i < Len(s) THEN <<s[i + 1]>> ELSE <<>>

\* parent.insertBefore(el, ref) inside one container: el leaves its old place
\* and is put before ref, or last when ref is null; before itself it stays.
InsertBefore(s, el, ref) ==
    LET r == Without(s, el)
    IN  IF ref = <<>> THEN Append(r, el)
        ELSE IF ref[1] = el THEN s
        ELSE InsertAt(r, IndexOf(r, ref[1]), el)

\* What columns.find gives when no column has the id.
Undefined == [id |-> 0, order |-> 0, tasks |-> <<>>]

\* The entries of an in-memory board before its first undefined entry: what
\* forEach, find and filter reach before column.id throws.
Defined(cols) ==
    SubSeq(cols, 1, IF \E k \in 1..Len(cols) : cols[k] = Undefined
                    THEN (CHOOSE k \in 1..Len(cols) :
                             /\ cols[k] = Undefined
                             /\ \A j \in 1..(k - 1) : cols[j] # Undefined) - 1
                    ELSE Len(cols))

\* An in-memory board has an entry that is undefined.
HasUndefined(cols) == \E k \in 1..Len(cols) : cols[k] = Undefined

\* createTaskElement / createColumnElement for every column: the DOM that
\* renderBoard builds from an in-memory board, up to an entry it throws on.
RenderOf(cols) ==
    [i \in 1..Len(Defined(cols)) |-> [id |-> cols[i].id, tasks |-> Ids(cols[i].tasks)]]

\* An element reference whose node a re-render removed from the document.
Detached(ref) == IF ref = <<>> THEN ref ELSE <<[ref[1] EXCEPT !.attached = FALSE]>>

\* -------------------------------------------------------- the server
\* GET /board/: the columns in order, each with its tasks in order.
BoardOf(s) ==
    [i \in 1..Len(s.cols) |->
        [id |-> s.cols[i], order |-> i,
         tasks |-> [j \in 1..Len(s.tasks[s.cols[i]]) |->
                       [id |-> s.tasks[s.cols[i]][j], order |-> j, column |-> s.cols[i]]]]]

\* POST /reorder-tasks/: every listed task takes the listed order.
ServerReorderTasks(s, newOrder) ==
    [s EXCEPT !.tasks = [c \in ColIds |->
        StableSort(s.tasks[c],
                   [i \in 1..Len(s.tasks[c]) |->
                       IF FindIndexById(newOrder, s.tasks[c][i]) # 0
                       THEN OrderIn(newOrder, s.tasks[c][i]) ELSE i])]]

\* POST /tasks/<id>/move/: the task leaves its column and is put last in `to`.
ServerMoveTask(s, t, to) ==
    [s EXCEPT !.tasks = [c \in ColIds |->
        IF c = to THEN Append(Without(s.tasks[c], t), t) ELSE Without(s.tasks[c], t)]]

\* POST /reorder-columns/: every listed column takes the listed order.
ServerReorderColumns(s, newOrder) ==
    [s EXCEPT !.cols =
        StableSort(s.cols, [i \in 1..Len(s.cols) |->
                               IF FindIndexById(newOrder, s.cols[i]) # 0
                               THEN OrderIn(newOrder, s.cols[i]) ELSE i])]

ServerApply(s, r) ==
    CASE r.api = "reorderTasks"   -> ServerReorderTasks(s, r.newOrder)
      [] r.api = "moveTask"       -> ServerMoveTask(s, r.task, r.col)
      [] r.api = "reorderColumns" -> ServerReorderColumns(s, r.newOrder)
      [] OTHER                    -> s

\* ------------------------------------------------------- requests
NoData == <<>>

\* One apiRequest in flight and what the suspended handler keeps: the request
\* body (newOrder, task, col), the handler's constants (from, col) and whether
\* the .column element it took from the event is still in the document.
Request(api, newOrder, task, col, from) ==
    [api |-> api, status |-> "sent", newOrder |-> newOrder, task |-> task,
     col |-> col, from |-> from, attached |-> TRUE, data |-> NoData]

GetCurrentUser == Request("getCurrentUser", <<>>, 0, 0, 0)
GetBoard == Request("getBoard", <<>>, 0, 0, 0)

Mutations == {"reorderTasks", "moveTask", "reorderColumns"}

\* What the handler that ran last was, how its call had ended, and the board
\* it received.
Op(op, status, data) == [op |-> op, status |-> status, data |-> data]

\* ------------------------------------------------------------ Init
\* Boards the server may hold when the page opens: the fixture, every task in
\* the first column, one task in each column.
InitServers ==
    {[cols |-> <<1, 2, 3>>, tasks |-> t] :
        t \in {(1 :> <<101, 102>> @@ 2 :> <<201>> @@ 3 :> <<>>),
               (1 :> <<101, 102, 201>> @@ 2 :> <<>> @@ 3 :> <<>>),
               (1 :> <<101>> @@ 2 :> <<102>> @@ 3 :> <<201>>)}}

\* DOMContentLoaded with a token stored: the state declarations, then loadBoard().
Init ==
    /\ server \in InitServers
    /\ columns = <<>>
    /\ dom = <<>>
    /\ view = "loading"
    /\ net = <<GetCurrentUser>>
    /\ draggedColumn = <<>>
    /\ gestures = 0
    /\ faults = 0
    /\ lastOp = Op("init", "", NoData)
    /\ token = <<"mock-auth-token-12345">>
    /\ page = "board.html"
    /\ location = <<>>
    /\ modal = ""

\* ----------------------------------------------------- the network
\* The server takes request i, applies it and answers 2xx.
ServerAccept(i) ==
    /\ net[i].status = "sent"
    /\ server' = ServerApply(server, net[i])
    /\ net' = [net EXCEPT ![i].status = "ok",
                          ![i].data = IF net[i].api = "getBoard"
                                      THEN BoardOf(server) ELSE NoData]
    /\ UNCHANGED <<columns, dom, view, draggedColumn, gestures, faults, lastOp>>
    /\ UNCHANGED <<token, page, location, modal>>

\* The server answers request i with an error status and changes nothing, or
\* the request never reaches it: apiRequest throws.
ServerReject(i) ==
    /\ net[i].status = "sent"
    /\ faults < MaxFaults
    /\ faults' = faults + 1
    /\ net' = [net EXCEPT ![i].status = "err"]
    /\ UNCHANGED <<server, columns, dom, view, draggedColumn, gestures, lastOp>>
    /\ UNCHANGED <<token, page, location, modal>>

\* The server applies mutation i and the response is lost on the way back:
\* fetch rejects and apiRequest throws the network error.
ServerLost(i) ==
    /\ net[i].status = "sent"
    /\ net[i].api \in Mutations
    /\ faults < MaxFaults
    /\ faults' = faults + 1
    /\ server' = ServerApply(server, net[i])
    /\ net' = [net EXCEPT ![i].status = "err"]
    /\ UNCHANGED <<columns, dom, view, draggedColumn, gestures, lastOp>>
    /\ UNCHANGED <<token, page, location, modal>>

\* A column is being dragged: draggedColumn is set and its element is in the
\* document. (Set with its element removed: the drag was cut off by a
\* re-render and its dragend never reached the document.)
Dragging == draggedColumn # <<>> /\ draggedColumn[1].attached

\* -------------------------------------------------------- loadBoard
\* A catch branch that logs the error and loads nothing.
LoadBoardSkipped(n) == n

\* loadBoard up to its first await: showLoading() and the getCurrentUser
\* request. `n` is the list of requests in flight before the call.
LoadBoardCall(n) == Append(n, GetCurrentUser)

\* A loadBoard that asks for the board whatever getCurrentUser has answered.
LoadBoardUserCarriesOn(i) ==
    /\ net[i].api = "getCurrentUser"
    /\ net[i].status # "sent"
    /\ net' = Append(SpliceOut(net, i), GetBoard)
    /\ view' = view
    /\ lastOp' = Op("getCurrentUser", net[i].status, NoData)
    /\ UNCHANGED <<server, columns, dom, draggedColumn, gestures, faults>>
    /\ UNCHANGED <<token, page, location, modal>>

\* loadBoard resumed after `await api.getCurrentUser()`.
LoadBoardUser(i) ==
    /\ net[i].api = "getCurrentUser"
    /\ net[i].status # "sent"
    /\ IF net[i].status = "ok"
       THEN /\ net' = Append(SpliceOut(net, i), GetBoard)
            /\ view' = view
       ELSE /\ net' = SpliceOut(net, i)
            /\ view' = "error"
    /\ lastOp' = Op("getCurrentUser", net[i].status, NoData)
    /\ UNCHANGED <<server, columns, dom, draggedColumn, gestures, faults>>
    /\ UNCHANGED <<token, page, location, modal>>

\* What renderBoard does to the references other handlers hold: every element
\* of the old document is detached.
RenderDetaches(n) == [k \in 1..Len(n) |-> [n[k] EXCEPT !.attached = FALSE]]

\* A loadBoard that renders the board it received and keeps the old `columns`.
LoadBoardDataRenderOnly(i) ==
    /\ net[i].api = "getBoard"
    /\ net[i].status # "sent"
    /\ IF net[i].status = "ok"
       THEN /\ dom' = RenderOf(net[i].data)
            /\ view' = "board"
            /\ net' = RenderDetaches(SpliceOut(net, i))
            /\ draggedColumn' = Detached(draggedColumn)
            /\ UNCHANGED columns
       ELSE /\ view' = "error"
            /\ net' = SpliceOut(net, i)
            /\ UNCHANGED <<columns, dom, draggedColumn>>
    /\ lastOp' = Op("getBoard", net[i].status, net[i].data)
    /\ UNCHANGED <<server, gestures, faults>>
    /\ UNCHANGED <<token, page, location, modal>>

\* loadBoard resumed after `await api.getBoard()`: columns = data.columns,
\* renderBoard(), showBoard(); showError() when the call failed.
LoadBoardData(i) ==
    /\ net[i].api = "getBoard"
    /\ net[i].status # "sent"
    /\ IF net[i].status = "ok"
       THEN /\ columns' = net[i].data
            /\ dom' = RenderOf(net[i].data)
            /\ view' = "board"
            /\ net' = RenderDetaches(SpliceOut(net, i))
            /\ draggedColumn' = Detached(draggedColumn)
       ELSE /\ view' = "error"
            /\ net' = SpliceOut(net, i)
            /\ UNCHANGED <<columns, dom, draggedColumn>>
    /\ lastOp' = Op("getBoard", net[i].status, net[i].data)
    /\ UNCHANGED <<server, gestures, faults>>
    /\ UNCHANGED <<token, page, location, modal>>

\* retryBtn click on the error view: loadBoard().
Retry ==
    /\ view = "error"
    /\ ~Dragging
    /\ Len(net) < MaxInFlight
    /\ view' = "loading"
    /\ net' = LoadBoardCall(net)
    /\ lastOp' = Op("retry", "", NoData)
    /\ UNCHANGED <<server, columns, dom, draggedColumn, gestures, faults>>
    /\ UNCHANGED <<token, page, location, modal>>

\* ---------------------------------------------------- drag and drop
\* The .task elements of the document.
TaskElements(d) == UNION {{d[i].tasks[j] : j \in 1..Len(d[i].tasks)} : i \in 1..Len(d)}

\* The id of the .column element that holds task element el (closest('.column')).
ColumnOfTask(d, el) ==
    d[CHOOSE i \in 1..Len(d) : IndexOf(d[i].tasks, el) # 0].id

\* The dragstart listener on a .task: what it stores in draggedTask.
DragStartTask(d, el) ==
    [element |-> el, taskId |-> el, columnId |-> ColumnOfTask(d, el)]

\* dragstart on the .column-header of the i-th .column.
DragStartColumn(i) ==
    /\ view = "board"
    /\ ~Dragging
    /\ gestures < MaxGestures
    /\ i \in 1..Len(dom)
    /\ draggedColumn' = <<[id |-> dom[i].id, attached |-> TRUE]>>
    /\ gestures' = gestures + 1
    /\ UNCHANGED <<server, columns, dom, view, net, faults, lastOp>>
    /\ UNCHANGED <<token, page, location, modal>>

\* The column drag ends without a drop: the dragend listener. The event is
\* fired at the dragged header and reaches the document only when the header
\* is still in it.
DragEndColumn ==
    /\ Dragging
    /\ draggedColumn' = <<>>
    /\ UNCHANGED <<server, columns, dom, view, net, gestures, faults, lastOp>>
    /\ UNCHANGED <<token, page, location, modal>>

\* A guard that lets the dragged element through as a target.
OnAnyTask(tasks, t, el) == t # 0

\* Line 380: the drop is on a task (t # 0) that is not the dragged element.
OnOtherTask(tasks, t, el) == t # 0 /\ tasks[t] # el

\* A move that puts the dragged .task before the target wherever it came from.
MoveTaskBeforeTarget(tasks, el, t) == InsertBefore(tasks, el, <<tasks[t]>>)

\* Lines 381-389: the dragged .task is put after the target when it was above
\* it and before the target otherwise. `tasks` are the .task elements of the
\* container, `el` the dragged one, `t` the index of the target.
MoveTaskInColumn(tasks, el, t) ==
    IF IndexOf(tasks, el) < t
    THEN InsertBefore(tasks, el, NextSibling(tasks, t))
    ELSE InsertBefore(tasks, el, <<tasks[t]>>)

\* Lines 408-409: the dragged .task leaves its container and is put before the
\* target task of column element i, or last in it when there is no target
\* (t = 0).
MoveTaskAcross(d, el, i, t) ==
    [k \in 1..Len(d) |->
        IF k = i
        THEN [d[k] EXCEPT !.tasks =
                 InsertBefore(d[k].tasks, el, IF t = 0 THEN <<>> ELSE <<d[k].tasks[t]>>)]
        ELSE [d[k] EXCEPT !.tasks = Without(d[k].tasks, el)]]

\* Lines 443-448: the dragged .column is put after the target column when it
\* was left of it and before the target otherwise.
MoveColumn(d, dragged, target) ==
    LET allCols == Ids(d)
        dIdx == IndexOf(allCols, dragged)
        tIdx == IndexOf(allCols, target)
        moved == IF dIdx < tIdx
                 THEN InsertBefore(allCols, dragged, NextSibling(allCols, tIdx))
                 ELSE InsertBefore(allCols, dragged, <<target>>)
    IN  [k \in 1..Len(d) |-> d[FindIndexById(d, moved[k])]]

\* The elements numbered by their index alone, from 0.
NewOrderFromIndex(els) == [k \in 1..Len(els) |-> [id |-> els[k], order |-> k - 1]]

\* Lines 391-393 and 450-452: newOrder, the ids of the elements in document
\* order, the i-th (from 0) with order i + 1.
NewOrder(els) == [k \in 1..Len(els) |-> [id |-> els[k], order |-> k]]

\* A task gesture: dragstart on the .task el, drop on the i-th .column, on its
\* t-th .task or, with t = 0, on no task, and dragend.
DropTask(el, i, t) ==
    /\ view = "board"
    /\ draggedColumn = <<>>
    /\ el \in TaskElements(dom)
    /\ i \in 1..Len(dom)
    /\ t \in 0..Len(dom[i].tasks)
    /\ LET draggedTask == DragStartTask(dom, el)
           toColumnId == dom[i].id
           fromColumnId == draggedTask.columnId
           taskId == draggedTask.taskId
       IN  IF fromColumnId = toColumnId
           THEN IF OnOtherTask(dom[i].tasks, t, draggedTask.element)
                THEN LET moved == MoveTaskInColumn(dom[i].tasks, draggedTask.element, t)
                     IN  /\ gestures < MaxGestures /\ Len(net) < MaxInFlight
                         /\ dom' = [dom EXCEPT ![i].tasks = moved]
                         /\ net' = Append(net, Request("reorderTasks", NewOrder(moved),
                                                       0, toColumnId, fromColumnId))
                         /\ gestures' = gestures + 1
                         /\ lastOp' = Op("drop", "reorderTasks", NoData)
                ELSE /\ lastOp' = Op("drop", IF t = 0 THEN "empty" ELSE "self", NoData)
                     /\ UNCHANGED <<dom, net, gestures>>
           ELSE /\ gestures < MaxGestures /\ Len(net) < MaxInFlight
                /\ dom' = MoveTaskAcross(dom, draggedTask.element, i, t)
                /\ net' = Append(net, Request("moveTask", <<>>, taskId, toColumnId,
                                              fromColumnId))
                /\ gestures' = gestures + 1
                /\ lastOp' = Op("drop", "moveTask", NoData)
    /\ UNCHANGED <<server, columns, view, draggedColumn, faults>>
    /\ UNCHANGED <<token, page, location, modal>>

\* Lines 437-458 up to the await: the column block of the drop listener, run
\* with `target` as e.target.closest('.column') while no task is dragged. It
\* gives the DOM and the requests in flight after it, from those before it
\* (d, n). `attached` tells whether the target element is still in the
\* document. A target out of the document has no parentNode and the block
\* throws. A dragged column out of the document meets no target in it: a task
\* drop does nothing while draggedColumn is set, so no handler that took its
\* target after the re-render is suspended.
ColumnBlock(d, n, target, attached) ==
    IF draggedColumn = <<>>
    THEN [dom |-> d, net |-> n]
    ELSE IF target = draggedColumn[1].id /\ attached = draggedColumn[1].attached
    THEN [dom |-> d, net |-> n]     \* targetColumn === draggedColumn: return
    ELSE IF ~attached \/ ~draggedColumn[1].attached
    THEN [dom |-> d, net |-> n]     \* targetColumn.parentNode is null: TypeError
    ELSE LET moved == MoveColumn(d, draggedColumn[1].id, target)
         IN  [dom |-> moved,
              net |-> Append(n, Request("reorderColumns", NewOrder(Ids(moved)),
                                        0, target, 0))]

\* drop of the dragged column on the i-th .column, and dragend.
DropColumn(i) ==
    /\ view = "board"
    /\ Dragging
    /\ i \in 1..Len(dom)
    /\ LET after == ColumnBlock(dom, net, dom[i].id, TRUE)
       IN  /\ dom' = after.dom
           /\ net' = after.net
           /\ IF after.net # net
              THEN /\ Len(net) < MaxInFlight
                   /\ lastOp' = Op("drop", "reorderColumns", NoData)
              ELSE /\ lastOp' = Op("drop", "selfColumn", NoData)
    /\ draggedColumn' = <<>>
    /\ UNCHANGED <<server, columns, view, gestures, faults>>
    /\ UNCHANGED <<token, page, location, modal>>

\* ------------------------------------------- the suspended handlers
\* Lines 397-404: the tasks of the in-memory column `id` sorted by the order
\* that newOrder gives their ids, 0 for a task that newOrder does not list.
SortColumnTasks(cols, id, newOrder) ==
    LET c == FindIndexById(cols, id)
    IN  IF c = 0 THEN cols
        ELSE [cols EXCEPT ![c].tasks =
                 StableSort(cols[c].tasks,
                            [k \in 1..Len(cols[c].tasks) |->
                                OrderIn(newOrder, cols[c].tasks[k].id)])]

\* A handler that sorts the in-memory tasks whatever the call has answered.
TasksReorderedEitherWay(i) ==
    /\ net[i].api = "reorderTasks"
    /\ net[i].status # "sent"
    /\ LET r == net[i]
           ok == r.status = "ok"
           cols1 == SortColumnTasks(columns, r.col, r.newOrder)
           n1 == IF ok THEN SpliceOut(net, i) ELSE LoadBoardCall(SpliceOut(net, i))
           after == ColumnBlock(dom, n1, r.col, r.attached)
       IN  /\ columns' = cols1
           /\ view' = IF ok THEN view ELSE "loading"
           /\ dom' = after.dom
           /\ net' = after.net
           /\ lastOp' = Op("reorderTasks", r.status, NoData)
    /\ UNCHANGED <<server, draggedColumn, gestures, faults>>
    /\ UNCHANGED <<token, page, location, modal>>

\* The drop listener resumed after `await api.reorderTasks(newOrder)`, to its
\* end: the sort or loadBoard(), then the column block.
TasksReordered(i) ==
    /\ net[i].api = "reorderTasks"
    /\ net[i].status # "sent"
    /\ LET r == net[i]
           ok == r.status = "ok"
           cols1 == IF ok THEN SortColumnTasks(columns, r.col, r.newOrder) ELSE columns
           n1 == IF ok THEN SpliceOut(net, i) ELSE LoadBoardCall(SpliceOut(net, i))
           after == ColumnBlock(dom, n1, r.col, r.attached)
       IN  /\ columns' = cols1
           /\ view' = IF ok THEN view ELSE "loading"
           /\ dom' = after.dom
           /\ net' = after.net
           /\ lastOp' = Op("reorderTasks", r.status, NoData)
    /\ UNCHANGED <<server, draggedColumn, gestures, faults>>
    /\ UNCHANGED <<token, page, location, modal>>

\* A move that pushes the task on the column `to` and leaves it in `from`.
MoveTaskInMemoryNoSplice(cols, taskId, from, to) ==
    LET f == FindIndexById(cols, from)
        t == FindIndexById(cols, to)
        idx == IF f = 0 THEN 0 ELSE FindIndexById(cols[f].tasks, taskId)
    IN  IF f = 0 \/ t = 0 \/ idx = 0 THEN cols
        ELSE [cols EXCEPT ![t].tasks =
                 Append(cols[t].tasks, [cols[f].tasks[idx] EXCEPT !.column = to])]

\* A move that leaves the column field of the task as it was.
MoveTaskInMemoryStaleColumn(cols, taskId, from, to) ==
    LET f == FindIndexById(cols, from)
        t == FindIndexById(cols, to)
        idx == IF f = 0 THEN 0 ELSE FindIndexById(cols[f].tasks, taskId)
    IN  IF f = 0 \/ t = 0 \/ idx = 0 THEN cols
        ELSE LET spliced == [cols EXCEPT ![f].tasks = SpliceOut(cols[f].tasks, idx)]
             IN  [spliced EXCEPT ![t].tasks = Append(spliced[t].tasks, cols[f].tasks[idx])]

\* Lines 413-422: the task leaves the in-memory column `from` and is pushed on
\* the column `to`, with its column field set.
MoveTaskInMemory(cols, taskId, from, to) ==
    LET f == FindIndexById(cols, from)
        t == FindIndexById(cols, to)
        idx == IF f = 0 THEN 0 ELSE FindIndexById(cols[f].tasks, taskId)
    IN  IF f = 0 \/ t = 0 \/ idx = 0 THEN cols
        ELSE LET task == [cols[f].tasks[idx] EXCEPT !.column = to]
                 spliced == [cols EXCEPT ![f].tasks = SpliceOut(cols[f].tasks, idx)]
             IN  [spliced EXCEPT ![t].tasks = Append(spliced[t].tasks, task)]

\* Lines 425-430: whether the .tasks container of column `from` is reset to
\* the "No tasks yet" note: the in-memory column exists and is empty.
EmptiesContainer(cols, from) ==
    FindIndexById(cols, from) # 0 /\ cols[FindIndexById(cols, from)].tasks = <<>>

\* The DOM with the .tasks container of column `from` reset.
ResetContainer(d, from) ==
    [k \in 1..Len(d) |-> IF d[k].id = from THEN [d[k] EXCEPT !.tasks = <<>>] ELSE d[k]]

\* The drop listener resumed after `await api.moveTask(taskId, toColumnId)`,
\* to its end.
TaskMoved(i) ==
    /\ net[i].api = "moveTask"
    /\ net[i].status # "sent"
    /\ LET r == net[i]
           ok == r.status = "ok"
           cols1 == IF ok THEN MoveTaskInMemory(columns, r.task, r.from, r.col)
                    ELSE columns
           d1 == IF ok /\ EmptiesContainer(cols1, r.from)
                 THEN ResetContainer(dom, r.from) ELSE dom
           n1 == IF ok THEN SpliceOut(net, i) ELSE LoadBoardCall(SpliceOut(net, i))
           after == ColumnBlock(d1, n1, r.col, r.attached)
       IN  /\ columns' = cols1
           /\ view' = IF ok THEN view ELSE "loading"
           /\ dom' = after.dom
           /\ net' = after.net
           /\ lastOp' = Op("moveTask", r.status, NoData)
    /\ UNCHANGED <<server, draggedColumn, gestures, faults>>
    /\ UNCHANGED <<token, page, location, modal>>

\* A rebuild of the column list from the entries of newOrder alone: the
\* columns come back without their tasks.
ColumnsFromOrder(cols, newOrder) ==
    [k \in 1..Len(newOrder) |->
        [id |-> newOrder[k].id, order |-> newOrder[k].order, tasks |-> <<>>]]

\* Line 456: newOrder.map(o => columns.find(c => c.id === o.id)).
ColumnsInOrder(cols, newOrder) ==
    [k \in 1..Len(newOrder) |->
        IF FindIndexById(cols, newOrder[k].id) = 0 THEN Undefined
        ELSE cols[FindIndexById(cols, newOrder[k].id)]]

\* Line 456: columns.find throws when it meets an undefined entry before
\* the column it looks for.
FindThrows(cols, newOrder) ==
    /\ HasUndefined(cols)
    /\ \E k \in 1..Len(newOrder) : FindIndexById(Defined(cols), newOrder[k].id) = 0

\* The drop listener resumed after `await api.reorderColumns(newOrder)`:
\* the new columns array, or renderBoard() when the call failed or the
\* mapping threw.
ColumnsReordered(i) ==
    /\ net[i].api = "reorderColumns"
    /\ net[i].status # "sent"
    /\ IF net[i].status = "ok" /\ ~FindThrows(columns, net[i].newOrder)
       THEN /\ columns' = ColumnsInOrder(columns, net[i].newOrder)
            /\ net' = SpliceOut(net, i)
            /\ UNCHANGED <<dom, draggedColumn>>
       ELSE /\ dom' = RenderOf(columns)
            /\ net' = RenderDetaches(SpliceOut(net, i))
            /\ draggedColumn' = Detached(draggedColumn)
            /\ UNCHANGED columns
    /\ lastOp' = Op("reorderColumns", net[i].status, NoData)
    /\ UNCHANGED <<server, view, gestures, faults>>
    /\ UNCHANGED <<token, page, location, modal>>

\* ------------------------------------------------------------- Next
Next ==
    \/ \E i \in 1..Len(net) : ServerAccept(i)
    \/ \E i \in 1..Len(net) : ServerReject(i)
    \/ \E i \in 1..Len(net) : ServerLost(i)
    \/ \E i \in 1..Len(net) : LoadBoardUser(i)
    \/ \E i \in 1..Len(net) : LoadBoardData(i)
    \/ Retry
    \/ \E i \in 1..Len(dom) : DragStartColumn(i)
    \/ DragEndColumn
    \/ \E el \in TaskIds, i \in 1..Len(dom), t \in 0..Cardinality(TaskIds) : DropTask(el, i, t)
    \/ \E i \in 1..Len(dom) : DropColumn(i)
    \/ \E i \in 1..Len(net) : TasksReordered(i)
    \/ \E i \in 1..Len(net) : TaskMoved(i)
    \/ \E i \in 1..Len(net) : ColumnsReordered(i)

Spec == Init /\ [][Next]_vars

\* The requests of loadBoard.
Loads == {"getCurrentUser", "getBoard"}

\* The same machine with the scheduling of a reload: a request of loadBoard
\* that is not refused is answered, and loadBoard is resumed once its request
\* is answered.
FairSpec ==
    /\ Init
    /\ [][Next]_vars
    /\ WF_vars(\E i \in 1..Len(net) : net[i].api \in Loads /\ ServerAccept(i))
    /\ WF_vars(\E i \in 1..Len(net) : LoadBoardUser(i))
    /\ WF_vars(\E i \in 1..Len(net) : LoadBoardData(i))

\* ------------------------------------------------- the session
\* Form submissions and logout clicks, over one behaviour.
MaxSubmits == 2

\* isAuthenticated(): a token is stored.
IsAuthenticated(tok) == tok # NoToken

\* A header built without the test on the token: getToken() gives null when
\* none is stored.
AuthorizationUnguarded(tok) ==
    IF tok # NoToken THEN <<"Token", tok[1]>> ELSE <<"Token", "null">>

\* The Authorization header apiRequest builds from the stored token: none
\* without a token.
Authorization(tok) == IF tok # NoToken THEN <<"Token", tok[1]>> ELSE <<>>

\* A call of apiRequest suspended on fetch, with the header it sent.
ApiCall(api, tok) == [api |-> api, authorization |-> Authorization(tok)]

\* The values a field of a JSON error body is modelled with: left out, a
\* string, or an array of strings.
JsUndefined == [kind |-> "undefined", val |-> <<>>]
JsStr(str) == [kind |-> "string", val |-> <<str>>]
JsArray(strs) == [kind |-> "array", val |-> strs]

\* The fields of a body that apiRequest reads for its message.
ErrorFields == <<"error", "detail", "username", "password", "non_field_errors">>

\* if (x): an array is truthy, also when empty; a string when not empty.
Truthy(x) == x.kind = "array" \/ (x.kind = "string" /\ x.val[1] # "")

\* Array.prototype.join(','), which is what String(array) gives.
RECURSIVE Join(_)
Join(strs) ==
    IF strs = <<>> THEN ""
    ELSE IF Len(strs) = 1 THEN strs[1]
    ELSE strs[1] \o "," \o Join(Tail(strs))

\* new Error(x).message: String(x), and the empty string for undefined.
MessageOf(x) ==
    IF x.kind = "string" THEN x.val[1]
    ELSE IF x.kind = "array" THEN Join(x.val)
    ELSE ""

\* Array.isArray(x) ? x[0] : x
FirstIfArray(x) ==
    IF x.kind = "array"
    THEN IF x.val = <<>> THEN JsUndefined ELSE JsStr(x.val[1])
    ELSE x

\* An extraction that tries detail before error.
ErrorMessageDetailFirst(data) ==
    IF data = <<>> THEN "Request failed"
    ELSE IF Truthy(data[1].detail) THEN MessageOf(data[1].detail)
    ELSE IF Truthy(data[1].error) THEN MessageOf(data[1].error)
    ELSE IF Truthy(data[1].username) THEN MessageOf(FirstIfArray(data[1].username))
    ELSE IF Truthy(data[1].password) THEN MessageOf(FirstIfArray(data[1].password))
    ELSE IF Truthy(data[1].non_field_errors)
    THEN MessageOf(FirstIfArray(data[1].non_field_errors))
    ELSE "Request failed"

\* The message of the error apiRequest throws for a response that is not ok;
\* data is <<>> for a body that is null.
ErrorMessage(data) ==
    IF data = <<>> THEN "Request failed"
    ELSE IF Truthy(data[1].error) THEN MessageOf(data[1].error)
    ELSE IF Truthy(data[1].detail) THEN MessageOf(data[1].detail)
    ELSE IF Truthy(data[1].username) THEN MessageOf(FirstIfArray(data[1].username))
    ELSE IF Truthy(data[1].password) THEN MessageOf(FirstIfArray(data[1].password))
    ELSE IF Truthy(data[1].non_field_errors)
    THEN MessageOf(FirstIfArray(data[1].non_field_errors))
    ELSE "Request failed"

\* A JSON body with the given error field, or with none of the five.
ErrorData(error) ==
    [error |-> IF error = "" THEN JsUndefined ELSE JsStr(error),
     detail |-> JsUndefined, username |-> JsUndefined, password |-> JsUndefined,
     non_field_errors |-> JsUndefined]

\* What fetch gives: status 0 stands for a rejected fetch; the body is JSON
\* with a token, or an error message, or neither.
Response(status, tok, error) ==
    [status |-> status, token |-> tok, data |-> <<ErrorData(error)>>]

Responses ==
    {Response(0, NoToken, ""), Response(401, NoToken, "Invalid token."),
     Response(204, NoToken, ""), Response(400, NoToken, ""),
     Response(400, NoToken, "Invalid credentials")}
    \cup {Response(200, <<t>>, "") : t \in Tokens}

\* apiRequest from the answer of fetch on: how it ends, with the message of
\* the error thrown or the data returned (<<>> for null).
ApiRequest(resp) ==
    IF resp.status = 0
    THEN [threw |-> TRUE, message |-> "Network error: Unable to connect to server",
          data |-> <<>>]
    ELSE IF resp.status = 401
    THEN [threw |-> TRUE, message |-> "Session expired", data |-> <<>>]
    ELSE IF resp.status = 204
    THEN [threw |-> FALSE, message |-> "", data |-> <<>>]
    ELSE IF resp.status \notin 200..299
    THEN [threw |-> TRUE,
          message |-> ErrorMessage(resp.data),
          data |-> <<>>]
    ELSE [threw |-> FALSE, message |-> "", data |-> <<resp>>]

\* A 401 branch without clearToken().
TokenKept(tok, resp) == tok

\* The stored token once apiRequest has handled the answer: the 401 branch
\* clears it.
TokenAfterRequest(tok, resp) == IF resp.status = 401 THEN NoToken ELSE tok

\* window.location.href once apiRequest has handled the answer: the 401
\* branch assigns index.html.
LocationAfterRequest(loc, resp) ==
    IF resp.status = 401 THEN <<"index.html">> ELSE loc

\* A login that drops the stored token whenever it fails.
LoginClearsOnFailure(tok, resp) ==
    [token |-> IF ApiRequest(resp).threw \/ ApiRequest(resp).data = <<>>
               THEN NoToken ELSE ApiRequest(resp).data[1].token,
     status |-> IF ApiRequest(resp).threw \/ ApiRequest(resp).data = <<>>
                THEN "rejected" ELSE "resolved",
     message |-> ApiRequest(resp).message]

\* api.login and api.register from the answer on: setToken(data.token) runs
\* when apiRequest returned, and throws on data null.
Login(tok, resp) ==
    LET r == ApiRequest(resp) IN
    IF r.threw
    THEN [token |-> TokenAfterRequest(tok, resp), status |-> "rejected",
          message |-> r.message]
    ELSE IF r.data = <<>>
    THEN [token |-> tok, status |-> "rejected",
          message |-> "Cannot read properties of null (reading 'token')"]
    ELSE [token |-> r.data[1].token, status |-> "resolved", message |-> ""]

\* A logout without the finally block: the token is cleared when the request
\* succeeded only.
LogoutClearsOnSuccess(tok, resp) ==
    [token |-> IF ApiRequest(resp).threw THEN TokenAfterRequest(tok, resp)
               ELSE NoToken,
     status |-> "resolved",
     message |-> ApiRequest(resp).message]

\* api.logout from the answer on: the error is dropped, finally clearToken().
Logout(tok, resp) ==
    [token |-> NoToken, status |-> "resolved", message |-> ApiRequest(resp).message]

\* The browser opens index.html or board.html, with or without a token
\* stored by an earlier visit.
SessionInit ==
    /\ server = [cols |-> <<>>, tasks |-> <<>>]
    /\ columns = <<>>
    /\ dom = <<>>
    /\ view = "loading"
    /\ net = <<>>
    /\ draggedColumn = <<>>
    /\ gestures = 0
    /\ faults = 0
    /\ lastOp = Op("init", "", "")
    /\ token \in {NoToken} \cup {<<t>> : t \in Tokens}
    /\ page = "about:blank"
    /\ location \in {<<"index.html">>, <<"board.html">>}
    /\ modal = ""

\* index.html loads: the calls of the document it replaces are gone with it,
\* and the page script sends an authenticated user on to board.html.
AuthPageLoad ==
    /\ location = <<"index.html">>
    /\ page' = "index.html"
    /\ net' = <<>>
    /\ location' = IF IsAuthenticated(token) THEN <<"board.html">> ELSE <<>>
    /\ UNCHANGED <<token, gestures, lastOp>>
    /\ UNCHANGED <<server, columns, dom, view, draggedColumn, faults, modal>>

\* A DOMContentLoaded listener without the return after the redirect:
\* loadBoard is started whether a token is stored or not.
BoardPageLoadNoReturn ==
    /\ location = <<"board.html">>
    /\ page' = "board.html"
    /\ location' = IF ~IsAuthenticated(token) THEN <<"index.html">> ELSE <<>>
    /\ net' = <<ApiCall("getCurrentUser", token)>>
    /\ UNCHANGED <<token, gestures, lastOp>>
    /\ UNCHANGED <<server, columns, dom, view, draggedColumn, faults, modal>>

\* board.html loads: DOMContentLoaded sends a user without a token back to
\* index.html, and otherwise starts loadBoard.
BoardPageLoad ==
    /\ location = <<"board.html">>
    /\ page' = "board.html"
    /\ IF ~IsAuthenticated(token)
       THEN /\ location' = <<"index.html">>
            /\ net' = <<>>
       ELSE /\ location' = <<>>
            /\ net' = <<ApiCall("getCurrentUser", token)>>
    /\ UNCHANGED <<token, gestures, lastOp>>
    /\ UNCHANGED <<server, columns, dom, view, draggedColumn, faults, modal>>

\* The login form is submitted; the button is disabled while a login is in
\* flight.
LoginSubmit ==
    /\ page = "index.html" /\ location = <<>>
    /\ gestures < MaxSubmits
    /\ \A k \in 1..Len(net) : net[k].api # "login"
    /\ net' = Append(net, ApiCall("login", token))
    /\ gestures' = gestures + 1
    /\ UNCHANGED <<token, page, location, lastOp>>
    /\ UNCHANGED <<server, columns, dom, view, draggedColumn, faults, modal>>

\* The register form is submitted: passwords that differ end the handler.
RegisterSubmit(match) ==
    /\ page = "index.html" /\ location = <<>>
    /\ gestures < MaxSubmits
    /\ \A k \in 1..Len(net) : net[k].api # "register"
    /\ gestures' = gestures + 1
    /\ IF match
       THEN /\ net' = Append(net, ApiCall("register", token))
            /\ UNCHANGED lastOp
       ELSE /\ lastOp' = Op("register", "invalid", "Passwords do not match")
            /\ UNCHANGED net
    /\ UNCHANGED <<token, page, location, modal>>
    /\ UNCHANGED <<server, columns, dom, view, draggedColumn, faults, modal>>

\* #logout-btn is clicked: api.logout() runs up to its fetch, then the
\* listener assigns index.html.
LogoutClick ==
    /\ page = "board.html" /\ location = <<>>
    /\ gestures < MaxSubmits
    /\ net' = Append(net, ApiCall("logout", token))
    /\ location' = <<"index.html">>
    /\ gestures' = gestures + 1
    /\ UNCHANGED <<token, page, lastOp>>
    /\ UNCHANGED <<server, columns, dom, view, draggedColumn, faults, modal>>

\* The answer to a login or register call arrives: api.login or api.register
\* resumes, then the submit listener, which goes to board.html on success.
LoginSettled(i, resp) ==
    /\ net[i].api \in {"login", "register"}
    /\ token' = Login(token, resp).token
    /\ location' = IF Login(token, resp).status = "resolved"
                   THEN <<"board.html">>
                   ELSE LocationAfterRequest(location, resp)
    /\ lastOp' = Op(net[i].api, Login(token, resp).status, Login(token, resp).message)
    /\ net' = SpliceOut(net, i)
    /\ UNCHANGED <<page, gestures>>
    /\ UNCHANGED <<server, columns, dom, view, draggedColumn, faults, modal>>

\* The answer to the logout call arrives before the document is replaced:
\* api.logout resumes.
LogoutSettled(i, resp) ==
    /\ net[i].api = "logout"
    /\ token' = Logout(token, resp).token
    /\ location' = LocationAfterRequest(location, resp)
    /\ lastOp' = Op("logout", Logout(token, resp).status, Logout(token, resp).message)
    /\ net' = SpliceOut(net, i)
    /\ UNCHANGED <<page, gestures>>
    /\ UNCHANGED <<server, columns, dom, view, draggedColumn, faults, modal>>

\* The answer to a call of loadBoard arrives: after getCurrentUser, getBoard
\* is called; an error ends loadBoard.
LoadSettled(i, resp) ==
    /\ net[i].api \in Loads
    /\ token' = TokenAfterRequest(token, resp)
    /\ location' = LocationAfterRequest(location, resp)
    /\ lastOp' = Op(net[i].api,
                    IF ApiRequest(resp).threw THEN "rejected" ELSE "resolved",
                    ApiRequest(resp).message)
    /\ net' = IF ~ApiRequest(resp).threw /\ net[i].api = "getCurrentUser"
              THEN Append(SpliceOut(net, i), ApiCall("getBoard", token))
              ELSE SpliceOut(net, i)
    /\ UNCHANGED <<page, gestures>>
    /\ UNCHANGED <<server, columns, dom, view, draggedColumn, faults, modal>>

SessionNext ==
    \/ AuthPageLoad
    \/ BoardPageLoad
    \/ LoginSubmit
    \/ \E match \in BOOLEAN : RegisterSubmit(match)
    \/ LogoutClick
    \/ \E i \in 1..Len(net), resp \in Responses : LoginSettled(i, resp)
    \/ \E i \in 1..Len(net), resp \in Responses : LogoutSettled(i, resp)
    \/ \E i \in 1..Len(net), resp \in Responses : LoadSettled(i, resp)

SessionSpec == SessionInit /\ [][SessionNext]_vars

\* ------------------------------------------------- one request
\* The values one field of an error body is drawn from.
FieldValues(f) ==
    {JsUndefined, JsStr(""), JsStr(f), JsArray(<<>>), JsArray(<<f>>),
     JsArray(<<f \o " 1", f \o " 2">>)}

\* The JSON objects a response that is not ok may carry.
ErrorBodies ==
    [error : FieldValues("error"), detail : FieldValues("detail"),
     username : FieldValues("username"), password : FieldValues("password"),
     non_field_errors : FieldValues("non_field_errors")]

\* What fetch may give to one call: no response, 401, 204, a token, or a
\* refusal with a JSON body that is null or an object.
AnyResponses ==
    Responses
    \cup {[status |-> st, token |-> NoToken, data |-> d] :
             st \in {400, 500}, d \in {<<>>} \cup {<<b>> : b \in ErrorBodies}}

\* board.html has just called getBoard with the stored token.
RequestInit ==
    /\ server = [cols |-> <<>>, tasks |-> <<>>]
    /\ columns = <<>>
    /\ dom = <<>>
    /\ view = "loading"
    /\ net = <<ApiCall("getBoard", <<"mock-auth-token-12345">>)>>
    /\ draggedColumn = <<>>
    /\ gestures = 0
    /\ faults = 0
    /\ lastOp = Op("init", "", "")
    /\ token = <<"mock-auth-token-12345">>
    /\ page = "board.html"
    /\ location = <<>>
    /\ modal = ""

\* fetch settles: the response, or the rejection, is there for apiRequest.
FetchSettles(resp) ==
    /\ net # <<>>
    /\ "response" \notin DOMAIN net[1]
    /\ net' = <<[api |-> net[1].api, authorization |-> net[1].authorization,
                 response |-> resp]>>
    /\ UNCHANGED <<token, page, location, gestures, lastOp>>
    /\ UNCHANGED <<server, columns, dom, view, draggedColumn, faults, modal>>

\* apiRequest resumes after await fetch and returns or throws.
RequestResumes ==
    /\ net # <<>>
    /\ "response" \in DOMAIN net[1]
    /\ token' = TokenAfterRequest(token, net[1].response)
    /\ location' = LocationAfterRequest(location, net[1].response)
    /\ lastOp' = Op(net[1].api,
                    IF ApiRequest(net[1].response).threw THEN "rejected" ELSE "resolved",
                    ApiRequest(net[1].response).message)
    /\ net' = <<>>
    /\ UNCHANGED <<page, gestures>>
    /\ UNCHANGED <<server, columns, dom, view, draggedColumn, faults, modal>>

RequestNext ==
    \/ \E resp \in AnyResponses : FetchSettles(resp)
    \/ RequestResumes

RequestSpec == RequestInit /\ [][RequestNext]_vars

\* ------------------------------------------------- the task form
\* Submissions of the task form, over one behaviour.
MaxForms == 2

\* What the user can have typed in #task-title and #task-description, trimmed.
Titles == {"", "New Task", "Task"}
Descriptions == {"", "Task description"}

\* JavaScript values as JSON.stringify writes them: a number stays a number,
\* a string a string.
JsNumber(n) == [kind |-> "number", val |-> n]
JsString(str) == [kind |-> "string", val |-> str]

\* The JSON body api.createTask builds from its parameters title, columnId and
\* description: description is left out when empty.
CreateTaskBody(title, columnId, description) ==
    [title |-> title, column_id |-> columnId,
     description |-> IF description = "" THEN <<>> ELSE <<description>>]

\* The call the submit listener makes: api.createTask(columnId, title,
\* description), with the listener's columnId kept for its continuation.
CreateTask(columnId, title, description) ==
    [api |-> "createTask", status |-> "sent",
     body |-> CreateTaskBody(JsNumber(columnId), JsString(title), description),
     columnId |-> columnId, data |-> NoData]

\* Ids the API gives to new tasks.
NewTaskIds == {301, 302}

\* The task the API answers POST /tasks/ with.
NewTask(id, body) ==
    [id |-> id, title |-> body.title, column |-> body.column_id, order |-> 999]

\* The board page with mockBoardData loaded and shown.
FormInit ==
    /\ server = [cols |-> <<1, 2, 3>>,
                 tasks |-> (1 :> <<101, 102>> @@ 2 :> <<201>> @@ 3 :> <<>>)]
    /\ columns = BoardOf(server)
    /\ dom = RenderOf(columns)
    /\ view = "board"
    /\ net = <<>>
    /\ draggedColumn = <<>>
    /\ gestures = 0
    /\ faults = 0
    /\ lastOp = Op("init", "", NoData)
    /\ token = <<"mock-auth-token-12345">>
    /\ page = "board.html"
    /\ location = <<>>
    /\ modal = ""

\* The task form is submitted: an empty title ends the listener, otherwise
\* api.createTask is called.
TaskFormSubmit(title, columnId, description) ==
    /\ gestures < MaxForms
    /\ gestures' = gestures + 1
    /\ IF title = ""
       THEN /\ lastOp' = Op("taskForm", "empty", NoData)
            /\ UNCHANGED net
       ELSE /\ lastOp' = Op("taskForm", "createTask", NoData)
            /\ net' = Append(net, CreateTask(columnId, title, description))
    /\ UNCHANGED <<server, columns, dom, view, draggedColumn, faults, modal>>
    /\ UNCHANGED <<token, page, location, modal>>

\* The API answers POST /tasks/ with a new task made from the body.
CreateTaskAccept(i, id) ==
    /\ net[i].api = "createTask" /\ net[i].status = "sent"
    /\ \A c \in 1..Len(columns) :
          \A k \in 1..Len(columns[c].tasks) : columns[c].tasks[k].id # id
    /\ \A k \in 1..Len(net) : net[k].data # NoData => net[k].data[1].id # id
    /\ net' = [net EXCEPT ![i].status = "ok",
                          ![i].data = <<NewTask(id, net[i].body)>>]
    /\ UNCHANGED <<server, columns, dom, view, draggedColumn, gestures, faults, lastOp>>
    /\ UNCHANGED <<token, page, location, modal>>

\* The API refuses POST /tasks/, or cannot be reached.
CreateTaskReject(i) ==
    /\ net[i].api = "createTask" /\ net[i].status = "sent"
    /\ net' = [net EXCEPT ![i].status = "err"]
    /\ UNCHANGED <<server, columns, dom, view, draggedColumn, gestures, faults, lastOp>>
    /\ UNCHANGED <<token, page, location, modal>>

\* col.tasks.push(newTask) on the column the listener's columnId finds.
PushTask(cols, columnId, newTask) ==
    [c \in 1..Len(cols) |->
        IF c = FindIndexById(cols, columnId)
        THEN [cols[c] EXCEPT !.tasks = Append(@, newTask)]
        ELSE cols[c]]

\* The submit listener resumes after await api.createTask: the new task is
\* pushed and the board rendered, or the failure is alerted.
TaskCreated(i) ==
    /\ net[i].api = "createTask" /\ net[i].status # "sent"
    /\ IF net[i].status = "ok"
       THEN /\ columns' = PushTask(columns, net[i].columnId, net[i].data[1])
            /\ dom' = RenderOf(columns')
       ELSE UNCHANGED <<columns, dom>>
    /\ lastOp' = Op("createTask", net[i].status, net[i].data)
    /\ net' = SpliceOut(net, i)
    /\ UNCHANGED <<server, view, draggedColumn, gestures, faults>>
    /\ UNCHANGED <<token, page, location, modal>>

FormNext ==
    \/ \E title \in Titles, columnId \in ColIds, description \in Descriptions :
          TaskFormSubmit(title, columnId, description)
    \/ \E i \in 1..Len(net), id \in NewTaskIds : CreateTaskAccept(i, id)
    \/ \E i \in 1..Len(net) : CreateTaskReject(i)
    \/ \E i \in 1..Len(net) : TaskCreated(i)

FormSpec == FormInit /\ [][FormNext]_vars

\* ------------------------------------------- columns made and deleted
\* Column forms submitted and deletions confirmed, over one behaviour, drags
\* counted with them.
MaxColumnOps == 2

\* The leftmost columns are the ones the user drags, drops on and deletes.
MaxColumnIndex == 3

\* const MAX_COLUMNS
MAX_COLUMNS == 12

\* Ids the API gives to new columns.
NewColumnIds == {21, 22}

\* What the user can have typed in #column-name, trimmed.
ColumnNames == {"", "Done"}

\* columns.find(c => c.id === colId): the index found, 0 when none is found
\* or an undefined entry is met first and c.id throws.
FindColumn(cols, colId) == FindIndexById(Defined(cols), colId)

\* The board page with a board loaded and shown: mockBoardData, or a board
\* of eleven columns without tasks.
ColumnInit ==
    /\ server \in {[cols |-> <<1, 2, 3>>,
                    tasks |-> (1 :> <<101, 102>> @@ 2 :> <<201>> @@ 3 :> <<>>)],
                   [cols |-> [k \in 1..(MAX_COLUMNS - 1) |-> k],
                    tasks |-> [k \in 1..(MAX_COLUMNS - 1) |-> <<>>]]}
    /\ columns = BoardOf(server)
    /\ dom = RenderOf(columns)
    /\ view = "board"
    /\ net = <<>>
    /\ draggedColumn = <<>>
    /\ gestures = 0
    /\ faults = 0
    /\ lastOp = Op("init", "", NoData)
    /\ token = <<"mock-auth-token-12345">>
    /\ page = "board.html"
    /\ location = <<>>
    /\ modal = ""

\* #add-column-btn is clicked: the column modal opens unless the board is at
\* its limit.
AddColumnClick ==
    /\ view = "board" /\ modal = "" /\ ~Dragging
    /\ IF Len(columns) >= MAX_COLUMNS
       THEN /\ lastOp' = Op("addColumn", "limit", NoData)
            /\ UNCHANGED modal
       ELSE /\ modal' = "column"
            /\ UNCHANGED lastOp
    /\ UNCHANGED <<server, columns, dom, view, net, draggedColumn, gestures, faults>>
    /\ UNCHANGED <<token, page, location>>

\* #cancel-column-btn, .close-modal, or a click on the backdrop.
CloseColumnModal ==
    /\ modal = "column"
    /\ modal' = ""
    /\ UNCHANGED <<server, columns, dom, view, net, draggedColumn, gestures, faults, lastOp>>
    /\ UNCHANGED <<token, page, location>>

\* The column form is submitted: an empty name ends the listener, otherwise
\* api.createColumn is called. The modal stays open until the call returns.
ColumnFormSubmit(name) ==
    /\ modal = "column"
    /\ gestures < MaxColumnOps
    /\ Len(net) < MaxInFlight
    /\ gestures' = gestures + 1
    /\ IF name = ""
       THEN /\ lastOp' = Op("columnForm", "empty", NoData)
            /\ UNCHANGED net
       ELSE /\ lastOp' = Op("columnForm", "createColumn", NoData)
            /\ net' = Append(net, Request("createColumn", <<>>, 0, 0, 0))
    /\ UNCHANGED <<server, columns, dom, view, draggedColumn, faults>>
    /\ UNCHANGED <<token, page, location, modal>>

\* The API answers POST /columns/ with a new column, last on the board.
CreateColumnAccept(i, id) ==
    /\ net[i].api = "createColumn" /\ net[i].status = "sent"
    /\ \A k \in 1..Len(server.cols) : server.cols[k] # id
    /\ server' = [cols |-> Append(server.cols, id),
                  tasks |-> (id :> <<>>) @@ server.tasks]
    /\ net' = [net EXCEPT ![i].status = "ok",
                          ![i].data = <<[id |-> id, order |-> Len(server.cols) + 1]>>]
    /\ UNCHANGED <<columns, dom, view, draggedColumn, gestures, faults, lastOp>>
    /\ UNCHANGED <<token, page, location, modal>>

\* The listener of the column form resumes after await api.createColumn: the
\* new column is pushed, the modal closed and the board rendered, or the
\* failure is alerted.
ColumnCreated(i) ==
    /\ net[i].api = "createColumn" /\ net[i].status # "sent"
    /\ IF net[i].status = "ok"
       THEN /\ columns' = Append(columns, [id |-> net[i].data[1].id,
                                           order |-> net[i].data[1].order,
                                           tasks |-> <<>>])
            /\ modal' = ""
            /\ dom' = RenderOf(columns')
            /\ net' = RenderDetaches(SpliceOut(net, i))
            /\ draggedColumn' = Detached(draggedColumn)
       ELSE /\ net' = SpliceOut(net, i)
            /\ UNCHANGED <<columns, modal, dom, draggedColumn>>
    /\ lastOp' = Op("createColumn", net[i].status, net[i].data)
    /\ UNCHANGED <<server, view, gestures, faults>>
    /\ UNCHANGED <<token, page, location>>

\* .delete-column of the k-th .column is clicked: the column is looked up in
\* memory by the element's id, the user is asked, and api.deleteColumn is
\* called when the user agrees.
DeleteColumnClick(k, agreed) ==
    /\ view = "board" /\ modal = "" /\ ~Dragging
    /\ k \in 1..Len(dom)
    /\ FindColumn(columns, dom[k].id) # 0
    /\ gestures < MaxColumnOps
    /\ Len(net) < MaxInFlight
    /\ gestures' = gestures + 1
    /\ IF agreed
       THEN /\ lastOp' = Op("deleteColumnClick", "confirmed", NoData)
            /\ net' = Append(net, Request("deleteColumn", <<>>, 0, dom[k].id, 0))
       ELSE /\ lastOp' = Op("deleteColumnClick", "declined", NoData)
            /\ UNCHANGED net
    /\ UNCHANGED <<server, columns, dom, view, draggedColumn, faults>>
    /\ UNCHANGED <<token, page, location, modal>>

\* The API deletes the column with its tasks and answers 204.
DeleteColumnAccept(i) ==
    /\ net[i].api = "deleteColumn" /\ net[i].status = "sent"
    /\ server' = [server EXCEPT !.cols = Without(@, net[i].col)]
    /\ net' = [net EXCEPT ![i].status = "ok"]
    /\ UNCHANGED <<columns, dom, view, draggedColumn, gestures, faults, lastOp>>
    /\ UNCHANGED <<token, page, location, modal>>

\* columns.filter(c => c.id !== id).
FilterOut(cols, id) == SelectSeq(cols, LAMBDA c : c.id # id)

\* A handler that drops the column before its call has returned.
ColumnDeletedEitherWay(i) ==
    /\ net[i].api = "deleteColumn" /\ net[i].status # "sent"
    /\ columns' = FilterOut(columns, net[i].col)
    /\ dom' = RenderOf(columns')
    /\ net' = RenderDetaches(SpliceOut(net, i))
    /\ draggedColumn' = Detached(draggedColumn)
    /\ lastOp' = Op("deleteColumn", net[i].status, NoData)
    /\ UNCHANGED <<server, view, gestures, faults>>
    /\ UNCHANGED <<token, page, location, modal>>

\* handleDeleteColumn resumes after await api.deleteColumn: the column is
\* filtered out and the board rendered, or the failure is alerted. filter
\* throws on an undefined entry, and then nothing is changed.
ColumnDeleted(i) ==
    /\ net[i].api = "deleteColumn" /\ net[i].status # "sent"
    /\ IF net[i].status = "ok" /\ ~HasUndefined(columns)
       THEN /\ columns' = FilterOut(columns, net[i].col)
            /\ dom' = RenderOf(columns')
            /\ net' = RenderDetaches(SpliceOut(net, i))
            /\ draggedColumn' = Detached(draggedColumn)
       ELSE /\ net' = SpliceOut(net, i)
            /\ UNCHANGED <<columns, dom, draggedColumn>>
    /\ lastOp' = Op("deleteColumn", net[i].status, NoData)
    /\ UNCHANGED <<server, view, gestures, faults>>
    /\ UNCHANGED <<token, page, location, modal>>

ColumnNext ==
    \/ AddColumnClick
    \/ CloseColumnModal
    \/ \E name \in ColumnNames : ColumnFormSubmit(name)
    \/ \E i \in 1..Len(net), id \in NewColumnIds : CreateColumnAccept(i, id)
    \/ \E i \in 1..Len(net) : ColumnCreated(i)
    \/ \E k \in 1..MaxColumnIndex, agreed \in BOOLEAN : DeleteColumnClick(k, agreed)
    \/ \E i \in 1..Len(net) : DeleteColumnAccept(i)
    \/ \E i \in 1..Len(net) : ColumnDeleted(i)
    \/ \E i \in 1..MaxColumnIndex : modal = "" /\ DragStartColumn(i)
    \/ DragEndColumn
    \/ \E i \in 1..MaxColumnIndex : DropColumn(i)
    \/ \E i \in 1..Len(net) : net[i].api = "reorderColumns" /\ ServerAccept(i)
    \/ \E i \in 1..Len(net) : ServerReject(i)
    \/ \E i \in 1..Len(net) : ColumnsReordered(i)

ColumnSpec == ColumnInit /\ [][ColumnNext]_vars

\* ------------------------------------------------------------ reload
\* The board page after a task drop's call has failed and its catch branch
\* has called loadBoard(): the in-memory board is the one loaded before, the
\* document holds the elements as the drop left them, behind the loading
\* view, and the server holds whatever it holds by now.
ReloadInit ==
    /\ server \in InitServers
    /\ \E loaded \in InitServers : columns = BoardOf(loaded)
    /\ \E dropped \in InitServers : dom = RenderOf(BoardOf(dropped))
    /\ view = "loading"
    /\ net = LoadBoardCall(<<>>)
    /\ draggedColumn = <<>>
    /\ gestures = 1
    /\ faults = 0
    /\ lastOp = Op("moveTask", "err", NoData)
    /\ token = <<"mock-auth-token-12345">>
    /\ page = "board.html"
    /\ location = <<>>
    /\ modal = ""

ReloadSpec == ReloadInit /\ [][Next]_vars

\* ------------------------------------------------------------ rename
\* Blur events on rename inputs in one behaviour.
MaxRenames == 3

\* Strings whose characters matter are sequences of characters.
Backlog == <<"B">>
Done == <<"D">>

\* What the user can leave in the rename input besides the name it opened
\* with: nothing, blanks, the other column's name, a new name with blanks
\* around it, a new name with a blank inside.
Typed == {<<>>, <<" ">>, Done, <<" ", "T", " ">>, <<"T">>, <<"T", " ", "U">>}

\* String.prototype.trim: the string without its leading and trailing blanks.
RECURSIVE TrimStart(_)
TrimStart(str) ==
    IF str # <<>> /\ Head(str) = " " THEN TrimStart(Tail(str)) ELSE str

RECURSIVE TrimEnd(_)
TrimEnd(str) ==
    IF str # <<>> /\ str[Len(str)] = " "
    THEN TrimEnd(SubSeq(str, 1, Len(str) - 1)) ELSE str

Trim(str) == TrimEnd(TrimStart(str))

\* The text finishRename and createColumnElement give a title: the name and
\* the number of tasks.
TitleText(name, taskCount) == <<name, taskCount>>

\* The board page with a board of two named columns loaded and shown; the
\* names are those the API gave, without blanks around them.
RenameInit ==
    /\ server = [cols |-> <<1, 2>>,
                 tasks |-> (1 :> <<101, 102>> @@ 2 :> <<>>),
                 names |-> (1 :> Backlog @@ 2 :> Done)]
    /\ columns = <<[id |-> 1, order |-> 1, name |-> Backlog,
                    tasks |-> <<[id |-> 101, order |-> 1, column |-> 1],
                                [id |-> 102, order |-> 2, column |-> 1]>>],
                   [id |-> 2, order |-> 2, name |-> Done, tasks |-> <<>>]>>
    /\ dom = [k \in 1..Len(columns) |->
                 [id |-> columns[k].id,
                  title |-> <<TitleText(columns[k].name, Len(columns[k].tasks))>>,
                  input |-> <<>>]]
    /\ view = "board"
    /\ net = <<>>
    /\ draggedColumn = <<>>
    /\ gestures = 0
    /\ faults = 0
    /\ lastOp = Op("init", "", NoData)
    /\ token = <<"mock-auth-token-12345">>
    /\ page = "board.html"
    /\ location = <<>>
    /\ modal = ""

\* dblclick on the .column-title of the k-th column: startColumnRename puts
\* an input in place of the title text. A double click on a title that holds
\* an input lands on the input, which is no .column-title.
StartColumnRename(k) ==
    /\ view = "board"
    /\ k \in 1..Len(dom)
    /\ dom[k].input = <<>>
    /\ FindIndexById(columns, dom[k].id) # 0
    /\ LET column == columns[FindIndexById(columns, dom[k].id)]
       IN  dom' = [dom EXCEPT ![k].title = <<>>,
                              ![k].input = <<[currentName |-> column.name,
                                              taskCount |-> Len(column.tasks)]>>]
    /\ lastOp' = Op("startColumnRename", "", NoData)
    /\ UNCHANGED <<server, columns, view, net, draggedColumn, gestures, faults>>
    /\ UNCHANGED <<token, page, location, modal>>

\* Line 200: newName && newName !== currentName.
SendsRename(value, currentName) ==
    Trim(value) # <<>> /\ Trim(value) # currentName

\* The input of the k-th title loses the focus with `value` in it, by Enter
\* or a click elsewhere, or by Escape, which first puts the opening name
\* back: finishRename up to its await, or to its end when nothing is sent.
\* The input stays in the title while the call is in flight and can be
\* focused and left again.
FinishRename(k, value, escape) ==
    /\ view = "board"
    /\ k \in 1..Len(dom)
    /\ dom[k].input # <<>>
    /\ gestures < MaxRenames
    /\ gestures' = gestures + 1
    /\ LET closure == dom[k].input[1]
           left == IF escape THEN closure.currentName ELSE value
       IN  IF SendsRename(left, closure.currentName)
           THEN /\ Len(net) < MaxInFlight
                /\ net' = Append(net,
                       [Request("updateColumn", <<>>, 0, dom[k].id, 0) EXCEPT
                           !.data = <<[name |-> Trim(left),
                                       currentName |-> closure.currentName,
                                       taskCount |-> closure.taskCount]>>])
                /\ lastOp' = Op("finishRename", "updateColumn", <<left>>)
                /\ UNCHANGED dom
           ELSE /\ dom' = [dom EXCEPT
                              ![k].title = <<TitleText(closure.currentName,
                                                       closure.taskCount)>>,
                              ![k].input = <<>>]
                /\ lastOp' = Op("finishRename", IF escape THEN "escape" ELSE "kept",
                                <<left>>)
                /\ UNCHANGED net
    /\ UNCHANGED <<server, columns, view, draggedColumn, faults>>
    /\ UNCHANGED <<token, page, location, modal>>

\* The API renames the column and answers 200.
UpdateColumnAccept(i) ==
    /\ net[i].api = "updateColumn" /\ net[i].status = "sent"
    /\ server' = [server EXCEPT !.names[net[i].col] = net[i].data[1].name]
    /\ net' = [net EXCEPT ![i].status = "ok"]
    /\ UNCHANGED <<columns, dom, view, draggedColumn, gestures, faults, lastOp>>
    /\ UNCHANGED <<token, page, location, modal>>

\* The title element of the column with this id shows this text and holds
\* no input.
SetTitle(d, id, text) ==
    [k \in 1..Len(d) |->
        IF d[k].id = id THEN [d[k] EXCEPT !.title = <<text>>, !.input = <<>>] ELSE d[k]]

\* A finishRename that names the column whatever the call has answered.
ColumnRenamedEitherWay(i) ==
    /\ net[i].api = "updateColumn" /\ net[i].status # "sent"
    /\ LET r == net[i].data[1]
           c == FindIndexById(columns, net[i].col)
       IN  /\ columns' = [columns EXCEPT ![c].name = r.name]
           /\ dom' = SetTitle(dom, net[i].col, TitleText(r.name, r.taskCount))
    /\ net' = SpliceOut(net, i)
    /\ lastOp' = Op("updateColumn", net[i].status, NoData)
    /\ UNCHANGED <<server, view, draggedColumn, gestures, faults>>
    /\ UNCHANGED <<token, page, location, modal>>

\* finishRename resumes after await api.updateColumn: the column object is
\* named and the title shows the new name, or the title shows the old name
\* when the call failed.
ColumnRenamed(i) ==
    /\ net[i].api = "updateColumn" /\ net[i].status # "sent"
    /\ LET r == net[i].data[1]
           c == FindIndexById(columns, net[i].col)
       IN  IF net[i].status = "ok"
           THEN /\ columns' = [columns EXCEPT ![c].name = r.name]
                /\ dom' = SetTitle(dom, net[i].col, TitleText(r.name, r.taskCount))
           ELSE /\ dom' = SetTitle(dom, net[i].col,
                                   TitleText(r.currentName, r.taskCount))
                /\ UNCHANGED columns
    /\ net' = SpliceOut(net, i)
    /\ lastOp' = Op("updateColumn", net[i].status, NoData)
    /\ UNCHANGED <<server, view, draggedColumn, gestures, faults>>
    /\ UNCHANGED <<token, page, location, modal>>

RenameNext ==
    \/ \E k \in 1..Len(dom) : StartColumnRename(k)
    \/ \E k \in 1..Len(dom), value \in Typed \cup {Backlog}, escape \in BOOLEAN :
          FinishRename(k, value, escape)
    \/ \E i \in 1..Len(net) : UpdateColumnAccept(i)
    \/ \E i \in 1..Len(net) : ServerReject(i)
    \/ \E i \in 1..Len(net) : ColumnRenamed(i)

RenameSpec == RenameInit /\ [][RenameNext]_vars

\* ------------------------------------------------------- task deletion
\* Clicks on .task-delete in one behaviour, drops included.
MaxDeletes == 3

\* The server holds the task.
ServerHolds(s, task) ==
    \E c \in DOMAIN s.tasks : IndexOf(s.tasks[c], task) # 0

\* The board page with mockBoardData loaded and shown.
DeleteInit ==
    /\ server = [cols |-> <<1, 2, 3>>,
                 tasks |-> (1 :> <<101, 102>> @@ 2 :> <<201>> @@ 3 :> <<>>)]
    /\ columns = BoardOf(server)
    /\ dom = RenderOf(columns)
    /\ view = "board"
    /\ net = <<>>
    /\ draggedColumn = <<>>
    /\ gestures = 0
    /\ faults = 0
    /\ lastOp = Op("init", "", NoData)
    /\ token = <<"mock-auth-token-12345">>
    /\ page = "board.html"
    /\ location = <<>>
    /\ modal = ""

\* .task-delete of the .task el is clicked: the task is looked up in memory
\* by the element's id, the user is asked, and api.deleteTask is called when
\* the user agrees.
DeleteTaskClick(el, agreed) ==
    /\ view = "board" /\ ~Dragging
    /\ el \in TaskElements(dom)
    /\ \E c \in 1..Len(Defined(columns)) : FindIndexById(columns[c].tasks, el) # 0
    /\ gestures < MaxDeletes
    /\ gestures' = gestures + 1
    /\ IF agreed
       THEN /\ Len(net) < MaxInFlight
            /\ net' = Append(net, Request("deleteTask", <<>>, el, 0, 0))
            /\ lastOp' = Op("deleteTaskClick", "confirmed", NoData)
       ELSE /\ lastOp' = Op("deleteTaskClick", "declined", NoData)
            /\ UNCHANGED net
    /\ UNCHANGED <<server, columns, dom, view, draggedColumn, faults>>
    /\ UNCHANGED <<token, page, location, modal>>

\* The API deletes the task and answers 204.
DeleteTaskAccept(i) ==
    /\ net[i].api = "deleteTask" /\ net[i].status = "sent"
    /\ ServerHolds(server, net[i].task)
    /\ server' = [server EXCEPT !.tasks =
                     [c \in DOMAIN server.tasks |-> Without(server.tasks[c], net[i].task)]]
    /\ net' = [net EXCEPT ![i].status = "ok"]
    /\ UNCHANGED <<columns, dom, view, draggedColumn, gestures, faults, lastOp>>
    /\ UNCHANGED <<token, page, location, modal>>

\* The API answers 404 to a call that names a task it does not hold.
NotFound(i) ==
    /\ net[i].api \in {"deleteTask", "moveTask"} /\ net[i].status = "sent"
    /\ ~ServerHolds(server, net[i].task)
    /\ net' = [net EXCEPT ![i].status = "err"]
    /\ UNCHANGED <<server, columns, dom, view, draggedColumn, gestures, faults, lastOp>>
    /\ UNCHANGED <<token, page, location, modal>>

\* A removal that leaves out the count of splice and cuts the list from the
\* task on.
RemoveTaskAndRest(cols, task) ==
    IF \E c \in 1..Len(cols) : FindIndexById(cols[c].tasks, task) # 0
    THEN LET c == CHOOSE c \in 1..Len(cols) :
                      /\ FindIndexById(cols[c].tasks, task) # 0
                      /\ \A b \in 1..(c - 1) : FindIndexById(cols[b].tasks, task) = 0
         IN  [cols EXCEPT ![c].tasks =
                 SubSeq(cols[c].tasks, 1, FindIndexById(cols[c].tasks, task) - 1)]
    ELSE cols

\* Lines 243-246: the first column that holds the task loses it.
RemoveTask(cols, task) ==
    IF \E c \in 1..Len(cols) : FindIndexById(cols[c].tasks, task) # 0
    THEN LET c == CHOOSE c \in 1..Len(cols) :
                      /\ FindIndexById(cols[c].tasks, task) # 0
                      /\ \A b \in 1..(c - 1) : FindIndexById(cols[b].tasks, task) = 0
         IN  [cols EXCEPT ![c].tasks =
                 SpliceOut(cols[c].tasks, FindIndexById(cols[c].tasks, task))]
    ELSE cols

\* handleDeleteTask resumes after await api.deleteTask: the task is spliced
\* out and the board rendered, or the failure is alerted. The loop throws on
\* an undefined entry met before the task, and then nothing is changed.
TaskDeleted(i) ==
    /\ net[i].api = "deleteTask" /\ net[i].status # "sent"
    /\ IF /\ net[i].status = "ok"
          /\ HasUndefined(columns) => RemoveTask(Defined(columns), net[i].task) # Defined(columns)
       THEN /\ columns' = RemoveTask(columns, net[i].task)
            /\ dom' = RenderOf(columns')
            /\ net' = RenderDetaches(SpliceOut(net, i))
            /\ draggedColumn' = Detached(draggedColumn)
       ELSE /\ net' = SpliceOut(net, i)
            /\ UNCHANGED <<columns, dom, draggedColumn>>
    /\ lastOp' = Op("deleteTask", net[i].status, NoData)
    /\ UNCHANGED <<server, view, gestures, faults>>
    /\ UNCHANGED <<token, page, location, modal>>

DeleteNext ==
    \/ \E el \in TaskIds, agreed \in BOOLEAN : DeleteTaskClick(el, agreed)
    \/ \E i \in 1..Len(net) : DeleteTaskAccept(i)
    \/ \E i \in 1..Len(net) : NotFound(i)
    \/ \E i \in 1..Len(net) : TaskDeleted(i)
    \/ \E el \in TaskIds, i \in 1..Len(dom), t \in 0..Cardinality(TaskIds) : DropTask(el, i, t)
    \/ \E i \in 1..Len(net) :
          /\ net[i].api # "deleteTask"
          /\ net[i].api = "moveTask" => ServerHolds(server, net[i].task)
          /\ ServerAccept(i)
    \/ \E i \in 1..Len(net) : ServerReject(i)
    \/ \E i \in 1..Len(net) : TasksReordered(i)
    \/ \E i \in 1..Len(net) : TaskMoved(i)
    \/ \E i \in 1..Len(net) : LoadBoardUser(i)
    \/ \E i \in 1..Len(net) : LoadBoardData(i)
    \/ Retry

DeleteSpec == DeleteInit /\ [][DeleteNext]_vars

\* -------------------------------------------------------- auth forms
\* A submit button of index.html.
Button(disabled, textContent) == [disabled |-> disabled, textContent |-> textContent]

\* An error paragraph of index.html.
ErrorLine(show, textContent) == [show |-> show, textContent |-> textContent]

\* The elements of index.html the page script works on, as the document is
\* parsed: the login card shown, both buttons enabled, no error shown.
AuthDocument ==
    [card |-> "login",
     loginSubmit |-> Button(FALSE, "Sign In"),
     registerSubmit |-> Button(FALSE, "Create Account"),
     loginError |-> ErrorLine(FALSE, ""),
     registerError |-> ErrorLine(FALSE, "")]

\* index.html loaded without a token stored.
AuthInit ==
    /\ server = [cols |-> <<>>, tasks |-> <<>>]
    /\ columns = <<>>
    /\ dom = AuthDocument
    /\ view = "loading"
    /\ net = <<>>
    /\ draggedColumn = <<>>
    /\ gestures = 0
    /\ faults = 0
    /\ lastOp = Op("init", "", "")
    /\ token = NoToken
    /\ page = "index.html"
    /\ location = <<>>
    /\ modal = ""

\* #show-register or #show-login is clicked: the other card is shown and
\* both error lines are hidden.
ShowCard(card) ==
    /\ page = "index.html" /\ location = <<>>
    /\ dom.card # card
    /\ dom' = [dom EXCEPT !.card = card, !.loginError.show = FALSE,
                          !.registerError.show = FALSE]
    /\ UNCHANGED <<token, page, location, net, gestures, lastOp>>
    /\ UNCHANGED <<server, columns, view, draggedColumn, faults, modal>>

\* The login form is submitted, which a disabled submit button prevents:
\* the listener up to await api.login.
LoginFormSubmit ==
    /\ page = "index.html" /\ location = <<>>
    /\ dom.card = "login"
    /\ ~dom.loginSubmit.disabled
    /\ gestures < MaxSubmits
    /\ dom' = [dom EXCEPT !.loginError.show = FALSE,
                          !.loginSubmit = Button(TRUE, "Signing in...")]
    /\ net' = Append(net, ApiCall("login", token))
    /\ gestures' = gestures + 1
    /\ UNCHANGED <<token, page, location, lastOp>>
    /\ UNCHANGED <<server, columns, view, draggedColumn, faults, modal>>

\* The register form is submitted, which a disabled submit button prevents:
\* passwords that differ end the listener with an error line, otherwise it
\* runs up to await api.register.
RegisterFormSubmit(match) ==
    /\ page = "index.html" /\ location = <<>>
    /\ dom.card = "register"
    /\ ~dom.registerSubmit.disabled
    /\ gestures < MaxSubmits
    /\ gestures' = gestures + 1
    /\ IF match
       THEN /\ dom' = [dom EXCEPT !.registerError.show = FALSE,
                                  !.registerSubmit = Button(TRUE, "Creating account...")]
            /\ net' = Append(net, ApiCall("register", token))
            /\ UNCHANGED lastOp
       ELSE /\ dom' = [dom EXCEPT !.registerError =
                                     ErrorLine(TRUE, "Passwords do not match")]
            /\ lastOp' = Op("register", "invalid", "Passwords do not match")
            /\ UNCHANGED net
    /\ UNCHANGED <<token, page, location>>
    /\ UNCHANGED <<server, columns, view, draggedColumn, faults, modal>>

\* error.message || fallback.
MessageOr(message, fallback) == IF message = "" THEN fallback ELSE message

\* A login listener that enables the button in its catch branch only.
LoginFormSettledInCatch(i, resp) ==
    /\ net[i].api = "login"
    /\ LET r == Login(token, resp)
       IN  /\ token' = r.token
           /\ location' = IF r.status = "resolved" THEN <<"board.html">>
                          ELSE LocationAfterRequest(location, resp)
           /\ dom' = IF r.status = "resolved" THEN dom
                     ELSE [dom EXCEPT
                              !.loginError = ErrorLine(TRUE, MessageOr(r.message, "Login failed")),
                              !.loginSubmit = Button(FALSE, "Sign In")]
           /\ lastOp' = Op("login", r.status, r.message)
    /\ net' = SpliceOut(net, i)
    /\ UNCHANGED <<page, gestures>>
    /\ UNCHANGED <<server, columns, view, draggedColumn, faults, modal>>

\* The answer to the login call arrives: api.login resumes, then the submit
\* listener: board.html is assigned or the error shown, and the finally
\* block enables the button.
LoginFormSettled(i, resp) ==
    /\ net[i].api = "login"
    /\ LET r == Login(token, resp)
           shown == IF r.status = "resolved" THEN dom
                    ELSE [dom EXCEPT !.loginError =
                             ErrorLine(TRUE, MessageOr(r.message, "Login failed"))]
       IN  /\ token' = r.token
           /\ location' = IF r.status = "resolved" THEN <<"board.html">>
                          ELSE LocationAfterRequest(location, resp)
           /\ dom' = [shown EXCEPT !.loginSubmit = Button(FALSE, "Sign In")]
           /\ lastOp' = Op("login", r.status, r.message)
    /\ net' = SpliceOut(net, i)
    /\ UNCHANGED <<page, gestures>>
    /\ UNCHANGED <<server, columns, view, draggedColumn, faults, modal>>

\* The answer to the register call arrives: api.register resumes, then the
\* submit listener.
RegisterFormSettled(i, resp) ==
    /\ net[i].api = "register"
    /\ LET r == Login(token, resp)
           shown == IF r.status = "resolved" THEN dom
                    ELSE [dom EXCEPT !.registerError =
                             ErrorLine(TRUE, MessageOr(r.message, "Registration failed"))]
       IN  /\ token' = r.token
           /\ location' = IF r.status = "resolved" THEN <<"board.html">>
                          ELSE LocationAfterRequest(location, resp)
           /\ dom' = [shown EXCEPT !.registerSubmit = Button(FALSE, "Create Account")]
           /\ lastOp' = Op("register", r.status, r.message)
    /\ net' = SpliceOut(net, i)
    /\ UNCHANGED <<page, gestures>>
    /\ UNCHANGED <<server, columns, view, draggedColumn, faults, modal>>

\* index.html loads again after a 401 has assigned it: a new document, the
\* calls of the old one gone with it.
AuthPageReload ==
    /\ page = "index.html"
    /\ location = <<"index.html">>
    /\ dom' = AuthDocument
    /\ net' = <<>>
    /\ location' = IF IsAuthenticated(token) THEN <<"board.html">> ELSE <<>>
    /\ UNCHANGED <<token, page, gestures, lastOp>>
    /\ UNCHANGED <<server, columns, view, draggedColumn, faults, modal>>

AuthNext ==
    \/ \E card \in {"login", "register"} : ShowCard(card)
    \/ LoginFormSubmit
    \/ \E match \in BOOLEAN : RegisterFormSubmit(match)
    \/ \E i \in 1..Len(net), resp \in Responses : LoginFormSettled(i, resp)
    \/ \E i \in 1..Len(net), resp \in Responses : RegisterFormSettled(i, resp)
    \/ AuthPageReload

AuthSpec == AuthInit /\ [][AuthNext]_vars

\* ------------------------------------------------------------ claims
\* The ids of the tasks of the in-memory column `id`; none when no column has it.
TaskIdsOf(cols, id) ==
    IF FindIndexById(cols, id) = 0 THEN <<>>
    ELSE Ids(cols[FindIndexById(cols, id)].tasks)

\* How many times the task appears in the in-memory board.
Occurrences(cols, task) ==
    Cardinality({p \in UNION {{<<c, j>> : j \in 1..Len(cols[c].tasks)} : c \in 1..Len(cols)} :
                    cols[p[1]].tasks[p[2]].id = task})

\* The document shows the board: the .column elements are its columns, in
\* order, and the .task elements of each are the tasks of its column, in order.
Shows(d, cols) ==
    /\ Len(d) = Len(cols)
    /\ \A c \in 1..Len(d) :
          /\ d[c].id = cols[c].id
          /\ d[c].tasks = Ids(cols[c].tasks)

\* How many requests of one API are in flight.
InFlight(n, api) == Cardinality({k \in 1..Len(n) : n[k].api = api})

\* C1: after a within-column reorder that the server confirmed, the only
\* gesture so far, every in-memory column lists its tasks in the order of the
\* column's .task elements, and the order fields of its tasks read 1..N.
C1_OrderFieldsContiguous ==
    (/\ lastOp.op = "reorderTasks" /\ lastOp.status = "ok"
     /\ gestures = 1 /\ faults = 0 /\ net = <<>>)
    => \A c \in 1..Len(columns) :
          /\ Ids(columns[c].tasks) = dom[c].tasks
          /\ \A j \in 1..Len(columns[c].tasks) : columns[c].tasks[j].order = j

\* C2: once the handler of a failed reorderTasks call has run, the reload it
\* started ends: in the error view when the reload failed, and otherwise with
\* the in-memory board equal to the board the server returned and the DOM
\* rendered from that board.
C2_FailedReorderReloads ==
    (lastOp.op = "reorderTasks" /\ lastOp.status = "err")
    ~> (\/ view = "error"
        \/ /\ lastOp.op = "getBoard" /\ lastOp.status = "ok"
           /\ columns = lastOp.data
           /\ Shows(dom, lastOp.data))

\* A reorderTasks call was applied by the server and its response lost, the
\* only gesture so far; the reload has ended and the board shows the server's.
C2_Witness ==
    /\ lastOp.op = "getBoard" /\ lastOp.status = "ok"
    /\ gestures = 1 /\ faults = 1
    /\ server.tasks[1] = <<102, 101>>
    /\ columns = BoardOf(server)
    /\ Shows(dom, columns)
C4_OneMutationInFlight ==
    Cardinality({k \in 1..Len(net) :
                    net[k].api \in Mutations /\ net[k].status = "sent"}) <= 1

\* C5: the handler of a rejected reorderTasks or moveTask call leaves the
\* in-memory board as it is and calls loadBoard (the loading view, one more
\* getCurrentUser request); loadBoard goes on to getBoard, and once the server
\* has answered it makes the board of the response the in-memory board and
\* renders it.
C5_RejectedTaskCallReloads ==
    [][\A i \in 1..Len(net) :
          /\ ((TasksReordered(i) \/ TaskMoved(i)) /\ net[i].status = "err")
                => /\ columns' = columns
                   /\ view' = "loading"
                   /\ InFlight(net', "getCurrentUser") = InFlight(net, "getCurrentUser") + 1
          /\ (LoadBoardUser(i) /\ net[i].status = "ok")
                => InFlight(net', "getBoard") = InFlight(net, "getBoard") + 1
          /\ (LoadBoardData(i) /\ net[i].status = "ok")
                => /\ columns' = net[i].data
                   /\ Shows(dom', net[i].data)
                   /\ view' = "board"]_vars

\* The handler of a rejected moveTask call has just run.
C5_Witness ==
    /\ lastOp.op = "moveTask" /\ lastOp.status = "err"
    /\ view = "loading"
    /\ InFlight(net, "getCurrentUser") = 1

\* C6: once the handler of a rejected reorderColumns call has run, a request
\* of loadBoard is in flight.
C6_RejectedColumnCallReloads ==
    (lastOp.op = "reorderColumns" /\ lastOp.status = "err")
    => \E k \in 1..Len(net) : net[k].api \in Loads

\* C7: with the board shown and no request in flight, the in-memory board has
\* the columns of the server's board in the server's order, each with the tasks
\* the server holds for it in the server's order.
C7_SettledMemoryIsServer ==
    (net = <<>> /\ view = "board") => Shows(RenderOf(BoardOf(server)), columns)

\* C8: a drop of D on another task T of its column puts D where T was: the new
\* sequence is the old one with D taken out and put in at T's index, D right
\* before T when it came from below and right after T when it came from above;
\* the submitted list gives that sequence the positions 1..N; and a successful
\* call leaves the in-memory column, when it holds the submitted tasks, in the
\* submitted order.
C8_DropAtTargetIndex ==
    /\ [][\A el \in TaskIds, i \in 1..Len(dom), t \in 1..Cardinality(TaskIds) :
            (DropTask(el, i, t) /\ lastOp'.status = "reorderTasks")
            => LET old == dom[i].tasks
                   new == dom'[i].tasks
                   d == IndexOf(old, el)
               IN  /\ new = InsertAt(Without(old, el), t, el)
                   /\ d > t => new[t + 1] = old[t]
                   /\ d < t => new[t - 1] = old[t]
                   /\ net'[Len(net')].newOrder =
                         [k \in 1..Len(new) |-> [id |-> new[k], order |-> k]]]_vars
    /\ [][\A i \in 1..Len(net) :
            (/\ TasksReordered(i) /\ net[i].status = "ok"
             /\ Len(TaskIdsOf(columns, net[i].col)) = Len(net[i].newOrder)
             /\ \A k \in 1..Len(net[i].newOrder) :
                   IndexOf(TaskIdsOf(columns, net[i].col), net[i].newOrder[k].id) # 0)
            => TaskIdsOf(columns', net[i].col) = Ids(net[i].newOrder)]_vars

\* Column 1 held 101, 102, 201; 201 was dropped on 101, the only gesture so
\* far, and the call succeeded.
C8_Witness ==
    /\ lastOp.op = "reorderTasks" /\ lastOp.status = "ok"
    /\ gestures = 1 /\ faults = 0
    /\ TaskIdsOf(columns, 1) = <<201, 101, 102>>
    /\ dom[1].tasks = <<201, 101, 102>>

\* C9: a drop of a task on itself, and a drop of the dragged column on itself,
\* send no request and leave the in-memory board and the document as they are.
C9_SelfDropDoesNothing ==
    [][/\ \A el \in TaskIds, i \in 1..Len(dom), t \in 1..Cardinality(TaskIds) :
            (DropTask(el, i, t) /\ dom[i].tasks[t] = el)
            => (net' = net /\ columns' = columns /\ dom' = dom)
       /\ \A i \in 1..Len(dom) :
            (DropColumn(i) /\ draggedColumn[1].id = dom[i].id)
            => (net' = net /\ columns' = columns /\ dom' = dom)]_vars

\* A task was dropped on itself while a request was in flight.
C9_Witness ==
    /\ lastOp.op = "drop" /\ lastOp.status = "self"
    /\ net # <<>>
    /\ columns # <<>>

MutationsOf(n) ==
    LET m == SelectSeq(n, LAMBDA r : r.api \in Mutations)
    IN  [k \in 1..Len(m) |-> m[k].api]

\* C11: after a successful cross-column move, the only gesture so far, every
\* in-memory column lists its tasks in the order of the column's .task
\* elements: the moved task is where the document shows it.
C11_MovedTaskWhereDomShows ==
    (/\ lastOp.op = "moveTask" /\ lastOp.status = "ok"
     /\ gestures = 1 /\ faults = 0 /\ net = <<>>)
    => \A c \in 1..Len(columns) : Ids(columns[c].tasks) = dom[c].tasks

\* C12: a drop of a task on a column and on none of its tasks leaves the task
\* last among the .task elements of that column, whether the column is
\* another one or the task's own.
C12_EmptySpaceDropAppends ==
    [][\A el \in TaskIds, i \in 1..Len(dom) :
          DropTask(el, i, 0)
          => dom'[i].tasks = Append(Without(dom[i].tasks, el), el)]_vars

\* C13: a successful reorderColumns call whose list names the in-memory
\* columns leaves the in-memory columns in the submitted order, and every
\* column is the object it was, with its tasks in the same order.
C13_ColumnsTakeSubmittedOrder ==
    [][\A i \in 1..Len(net) :
          (/\ ColumnsReordered(i) /\ net[i].status = "ok"
           /\ Len(net[i].newOrder) = Len(columns)
           /\ \A k \in 1..Len(columns) :
                 FindIndexById(net[i].newOrder, columns[k].id) # 0)
          => /\ Ids(columns') = Ids(net[i].newOrder)
             /\ \A k \in 1..Len(columns) :
                   columns'[FindIndexById(columns', columns[k].id)] = columns[k]]_vars

\* Column 1 was dropped on column 2, the only gesture so far, and the call
\* succeeded: the in-memory columns are 2, 1, 3 and column 1 kept its tasks.
C13_Witness ==
    /\ lastOp.op = "reorderColumns" /\ lastOp.status = "ok"
    /\ gestures = 1 /\ faults = 0
    /\ Ids(columns) = <<2, 1, 3>>
    /\ TaskIdsOf(columns, 1) # <<>>

\* C14: after a successful reorderColumns call, the only gesture so far, the
\* order fields of the in-memory columns read 1..N in list order.
C14_ColumnOrderFieldsContiguous ==
    (/\ lastOp.op = "reorderColumns" /\ lastOp.status = "ok"
     /\ gestures = 1 /\ faults = 0 /\ net = <<>>)
    => \A k \in 1..Len(columns) : columns[k].order = k

\* C15: a task drop sends at most one request, reorderTasks in the task's own
\* column and otherwise moveTask without order data; a column drop sends at
\* most one request, reorderColumns; and the handler of a drop, once resumed,
\* sends no further mutation and a request of loadBoard only when its call
\* failed.
C15_OneCallPerGesture ==
    [][/\ \A el \in TaskIds, i \in 1..Len(dom), t \in 0..Cardinality(TaskIds) :
            DropTask(el, i, t)
            => \/ net' = net
               \/ /\ SubSeq(net', 1, Len(net)) = net /\ Len(net') = Len(net) + 1
                  /\ net'[Len(net')].api =
                        IF el \in {dom[i].tasks[j] : j \in 1..Len(dom[i].tasks)}
                        THEN "reorderTasks" ELSE "moveTask"
                  /\ net'[Len(net')].api = "moveTask" => net'[Len(net')].newOrder = <<>>
       /\ \A i \in 1..Len(dom) :
            DropColumn(i)
            => \/ net' = net
               \/ /\ SubSeq(net', 1, Len(net)) = net /\ Len(net') = Len(net) + 1
                  /\ net'[Len(net')].api = "reorderColumns"
       /\ \A i \in 1..Len(net) :
            (TasksReordered(i) \/ TaskMoved(i) \/ ColumnsReordered(i))
            => /\ MutationsOf(net') = MutationsOf(SpliceOut(net, i))
               /\ net[i].status = "ok" => Len(net') = Len(net) - 1]_vars
\* The calls of net2 that net1 does not hold: the ones a step sent.
Sent(net1, net2) ==
    {net2[k] : k \in 1..Len(net2)} \ {net1[k] : k \in 1..Len(net1)}

\* C16: index.html, loaded after a logout click whose call has not returned,
\* finds no token stored and keeps the user on the login page.
C16_LogoutStaysOnLoginPage ==
    [][(AuthPageLoad /\ InFlight(net, "logout") > 0)
       => (token' = NoToken /\ location' = <<>>)]_vars

\* C17: a 401 answer to any call clears the stored token, ends apiRequest with
\* 'Session expired' and assigns index.html; a call sent while no token is
\* stored carries no Authorization header; and a token is stored again only
\* by a login or register call that got a 2xx answer.
C17_UnauthorizedEndsSession ==
    [][/\ \A i \in 1..Len(net), resp \in Responses :
            (/\ resp.status = 401
             /\ LoginSettled(i, resp) \/ LogoutSettled(i, resp) \/ LoadSettled(i, resp))
            => /\ token' = NoToken
               /\ location' = <<"index.html">>
               /\ lastOp'.data = "Session expired"
       /\ \A c \in Sent(net, net') :
            /\ c.authorization = Authorization(token)
            /\ token = NoToken => c.authorization = <<>>
       /\ (token = NoToken /\ token' # NoToken)
            => \E i \in 1..Len(net), resp \in Responses :
                  LoginSettled(i, resp) /\ resp.status \in 200..299]_vars

\* A call got 401, and the login call sent after it from index.html carries
\* no Authorization header.
C17_Witness ==
    /\ lastOp.data = "Session expired"
    /\ token = NoToken
    /\ page = "index.html"
    /\ \E k \in 1..Len(net) : net[k].api = "login" /\ net[k].authorization = <<>>

\* C18: api.logout, resumed with any answer or with none, leaves no token
\* stored and resolves.
C18_LogoutAlwaysClears ==
    [][\A i \in 1..Len(net), resp \in Responses :
          LogoutSettled(i, resp)
          => (token' = NoToken /\ lastOp'.status = "resolved")]_vars

\* The logout request could not reach the server, and no token is stored.
C18_Witness ==
    /\ lastOp.op = "logout"
    /\ lastOp.data = "Network error: Unable to connect to server"
    /\ token = NoToken

\* C19: a login or register call that gets a 2xx answer with a body stores
\* the token of the answer and resolves; with any other answer it rejects and
\* leaves the stored token as it was, except that 401 clears it.
C19_TokenStoredOnSuccessOnly ==
    [][\A i \in 1..Len(net), resp \in Responses :
          LoginSettled(i, resp)
          => IF resp.status \in 200..299 /\ resp.status # 204
             THEN token' = resp.token /\ lastOp'.status = "resolved"
             ELSE /\ lastOp'.status = "rejected"
                  /\ token' = IF resp.status = 401 THEN NoToken ELSE token]_vars

\* A login was refused with 400 after a register call had stored a token: the
\* token is still stored.
C19_Witness ==
    /\ lastOp.op = "login"
    /\ lastOp.status = "rejected"
    /\ lastOp.data = "Invalid credentials"
    /\ token # NoToken
\* C20: a submission of the task form with a title sends one createTask
\* request whose body has the typed title as title and the selected column's
\* id as column_id.
C20_CreateTaskBody ==
    [][\A title \in Titles \ {""}, columnId \in ColIds, description \in Descriptions :
          TaskFormSubmit(title, columnId, description)
          => /\ Len(net') = Len(net) + 1
             /\ net'[Len(net')].api = "createTask"
             /\ net'[Len(net')].body.title = JsString(title)
             /\ net'[Len(net')].body.column_id = JsNumber(columnId)]_vars
\* C21: a call is sent with the header Authorization 'Token t' when the token
\* t is stored at that moment and without the header when none is stored, and
\* isAuthenticated() is true exactly when a token is stored.
C21_HeaderIffTokenStored ==
    [][/\ \A c \in Sent(net, net') :
            \/ token = NoToken /\ c.authorization = <<>>
            \/ \E t \in Tokens : token = <<t>> /\ c.authorization = <<"Token", t>>
       /\ IsAuthenticated(token) <=> \E t \in Tokens : token = <<t>>]_vars

\* loadBoard called getCurrentUser with the token a login had just stored.
C21_Witness ==
    /\ lastOp.op = "login" /\ lastOp.status = "resolved"
    /\ token = <<"mock-auth-token-67890">>
    /\ \E k \in 1..Len(net) :
          /\ net[k].api = "getCurrentUser"
          /\ net[k].authorization = <<"Token", "mock-auth-token-67890">>
\* The responses that are refusals with a JSON body: not 2xx, not 401, and
\* not a rejected fetch.
Refusal(resp) == resp.status \notin 200..299 /\ resp.status \notin {0, 401}

\* A field is present when the body gives it a value: a string that is not
\* empty, or an array.
Present(x) == x.kind = "array" \/ (x.kind = "string" /\ x.val # <<"">>)

\* The first of the five fields that is present in a body, 0 for none.
FirstField(data) ==
    IF data = <<>> \/ \A k \in 1..Len(ErrorFields) : ~Present(data[1][ErrorFields[k]])
    THEN 0
    ELSE CHOOSE k \in 1..Len(ErrorFields) :
            /\ Present(data[1][ErrorFields[k]])
            /\ \A j \in 1..(k - 1) : ~Present(data[1][ErrorFields[j]])

\* A string as it is, and of an array the first element.
FirstElement(x) ==
    IF x.kind = "string" THEN x.val[1]
    ELSE IF x.val = <<>> THEN "" ELSE x.val[1]

\* C22 as stated: a refusal with a JSON body fails with the value of the
\* first of error, detail, username, password, non_field_errors that is
\* present, its first element when it is an array, and with 'Request failed'
\* when none is present; a rejected fetch fails with the network error message.
C22_MessageOfFirstPresentField ==
    [][RequestResumes =>
         LET resp == net[1].response
             k == FirstField(resp.data)
         IN  /\ Refusal(resp) =>
                  /\ lastOp'.status = "rejected"
                  /\ lastOp'.data = IF k = 0 THEN "Request failed"
                                    ELSE FirstElement(resp.data[1][ErrorFields[k]])
             /\ resp.status = 0 =>
                  /\ lastOp'.status = "rejected"
                  /\ lastOp'.data = "Network error: Unable to connect to server"]_vars

\* C22 amended: only username, password and non_field_errors give the first
\* element when they are an array; error and detail give their value as it
\* is, an array as its elements joined by commas; 'Request failed' when no
\* field is present; a rejected fetch fails with the network error message.
C22_MessageOfFirstTruthyField ==
    [][RequestResumes =>
         LET resp == net[1].response
             k == FirstField(resp.data)
         IN  /\ Refusal(resp) =>
                  /\ lastOp'.status = "rejected"
                  /\ lastOp'.data =
                        IF k = 0 THEN "Request failed"
                        ELSE IF k <= 2 /\ resp.data[1][ErrorFields[k]].kind = "array"
                        THEN Join(resp.data[1][ErrorFields[k]].val)
                        ELSE FirstElement(resp.data[1][ErrorFields[k]])
             /\ resp.status = 0 =>
                  /\ lastOp'.status = "rejected"
                  /\ lastOp'.data = "Network error: Unable to connect to server"]_vars

\* A refusal whose message is the first element of the array under password:
\* error, detail and username gave nothing.
C22_Witness ==
    /\ lastOp.op = "getBoard" /\ lastOp.status = "rejected"
    /\ lastOp.data = "password 1"
\* C23: board.html, loaded with no token stored, assigns index.html and
\* leaves no call in flight; index.html, loaded with a token stored, assigns
\* board.html.
C23_PagesRedirectByToken ==
    [][/\ (BoardPageLoad /\ token = NoToken)
            => (location' = <<"index.html">> /\ net' = <<>>)
       /\ (AuthPageLoad /\ token # NoToken)
            => location' = <<"board.html">>]_vars

\* board.html was opened with no token stored: index.html is assigned and
\* nothing was called.
C23_Witness ==
    /\ page = "board.html"
    /\ token = NoToken
    /\ location = <<"index.html">>
    /\ net = <<>>
    /\ lastOp.op = "init"

\* The in-memory columns other than the one with this id, in their order.
OtherColumns(cols, id) ==
    LET keep == {k \in 1..Len(cols) : cols[k] = Undefined \/ cols[k].id # id}
        RECURSIVE Pick(_)
        Pick(k) == IF k > Len(cols) THEN <<>>
                   ELSE (IF k \in keep THEN <<cols[k]>> ELSE <<>>) \o Pick(k + 1)
    IN  Pick(1)

\* C24: the delete handler takes a column out of the in-memory list only when
\* deleteColumn has succeeded. The click itself, answered yes or no, leaves
\* the in-memory board as it was, and so does a failed call; after a
\* successful call every other column is still in the list, with its tasks
\* and in its place.
C24_ColumnRemovedOnlyAfterDelete ==
    [][/\ \A k \in 1..MaxColumnIndex, agreed \in BOOLEAN :
            DeleteColumnClick(k, agreed) => columns' = columns
       /\ \A i \in 1..Len(net) :
            ColumnDeleted(i) =>
                IF net[i].status = "ok"
                THEN OtherColumns(columns', net[i].col) = OtherColumns(columns, net[i].col)
                ELSE columns' = columns]_vars

\* The second of three columns was deleted with the API's agreement and is
\* gone from memory, the other two are left.
C24_Witness ==
    /\ lastOp.op = "deleteColumn" /\ lastOp.status = "ok"
    /\ Len(columns) = 2 /\ Len(server.cols) = 2
    /\ Ids(columns) = <<1, 3>>
    /\ columns[1].tasks # <<>>

\* The calls a step has issued: those in flight after it from a handler that
\* has not been detached and that were not in flight before it.
Issued(net1, net2) ==
    {c \in Sent(net1, net2) : c.status = "sent" /\ c.attached}

\* A list of {id, order} pairs names each of the elements once, in their
\* order, with the orders 1..N.
ListsInOrder(newOrder, els) ==
    /\ Len(newOrder) = Len(els)
    /\ \A k \in 1..Len(els) : newOrder[k].id = els[k] /\ newOrder[k].order = k
    /\ \A k, l \in 1..Len(newOrder) : newOrder[k].id = newOrder[l].id => k = l

\* C25: the list sent by a task drop within a column names every task
\* element of that column once, with the orders 1..N in the order the DOM
\* shows after the move; the list sent by a column drop names every column
\* of the board once, with the orders 1..N in the order the DOM shows after
\* the move.
C25_NewOrderIsDomOrder ==
    [][\A c \in Issued(net, net') :
          /\ c.api = "reorderTasks" =>
                \E i \in 1..Len(dom') :
                    dom'[i].id = c.col /\ ListsInOrder(c.newOrder, dom'[i].tasks)
          /\ c.api = "reorderColumns" => ListsInOrder(c.newOrder, Ids(dom'))]_vars

\* A task drop within a column of two tasks and a column drop have both been
\* sent, each with a full list.
C25_Witness ==
    /\ \E k \in 1..Len(net) :
          net[k].api = "reorderTasks" /\ net[k].status = "sent" /\ Len(net[k].newOrder) = 2
    /\ \E k \in 1..Len(net) :
          net[k].api = "reorderColumns" /\ net[k].status = "sent" /\ Len(net[k].newOrder) = 3

\* The handler of a reorderTasks, moveTask or reorderColumns call resumes
\* with the call's answer.
Resumes(i) == TasksReordered(i) \/ TaskMoved(i) \/ ColumnsReordered(i)

\* C26: a drop leaves the in-memory board as it is when it submits its call,
\* and nothing changes the in-memory board while the call is in flight; the
\* handler changes it only when it resumes with a success, and a handler that
\* resumes with a failure changes nothing in it. The only other step that
\* changes the in-memory board is a load that replaces it.
C26_MemoryChangesOnlyOnSuccess ==
    [][/\ \A el \in TaskIds, i \in 1..Len(dom), t \in 0..Cardinality(TaskIds) :
            DropTask(el, i, t) => columns' = columns
       /\ \A i \in 1..Len(dom) : DropColumn(i) => columns' = columns
       /\ \A i \in 1..Len(net) :
            (Resumes(i) /\ net[i].status # "ok") => columns' = columns
       /\ columns' # columns =>
            \/ \E i \in 1..Len(net) : Resumes(i) /\ net[i].status = "ok"
            \/ \E i \in 1..Len(net) : LoadBoardData(i)]_vars

\* A reorder of the first column has been answered with a success and the
\* in-memory tasks of the column are in the new order, while a second call
\* is still in flight.
C26_Witness ==
    /\ lastOp.op = "reorderTasks" /\ lastOp.status = "ok"
    /\ Ids(columns[1].tasks) = <<102, 101>>
    /\ Len(net) = 1 /\ net[1].status = "sent"

\* The task ids the DOM shows in the column with this id.
ShownTasks(d, id) == d[FindIndexById(d, id)].tasks

\* The second of two calls of the same kind resumes with a success: both
\* gestures were made before either call had returned, the first has resumed
\* with a success and no other gesture was made since.
SecondOfTwoResumes(i, api) ==
    /\ gestures = 2
    /\ Len(net) = 1
    /\ net[i].api = api /\ net[i].status = "ok"
    /\ lastOp = Op(api, "ok", NoData)

\* C27: two reorders of one column are sent one after the other before
\* either returns, and both succeed. Once both handlers have resumed, in
\* whichever order, the in-memory tasks of the column are in the order the
\* DOM shows.
C27_MemoryFollowsLaterReorder ==
    [][\A i \in 1..Len(net) :
          (SecondOfTwoResumes(i, "reorderTasks") /\ TasksReordered(i)) =>
              \A c \in 1..Len(columns') :
                  columns'[c].id = net[i].col =>
                      Ids(columns'[c].tasks) = ShownTasks(dom', net[i].col)]_vars

\* The in-memory board holds the task once, in the column where the DOM
\* shows its element.
InShownColumnOnly(d, cols, task) ==
    /\ Occurrences(cols, task) = 1
    /\ IndexOf(TaskIdsOf(cols, ColumnOfTask(d, task)), task) # 0

\* C28: two moves are sent one after the other before either returns, the
\* second taking the task from the column the first has put it in, and both
\* succeed. Once both handlers have resumed, in whichever order, the task is
\* in one in-memory column only, the one in which the DOM shows it. The
\* handler that resumes last is the second move's, or it is the first
\* move's and the DOM shows the task elsewhere than in its target.
C28_TaskEndsInShownColumn ==
    [][\A i \in 1..Len(net) :
          (/\ SecondOfTwoResumes(i, "moveTask")
           /\ TaskMoved(i)
           /\ net[i].task \in TaskElements(dom')) =>
              InShownColumnOnly(dom', columns', net[i].task)]_vars

\* The entries of an in-memory board.
Entries(cols) == {cols[k] : k \in 1..Len(cols)}

\* C29: columns are created or deleted while a reorderColumns call is in
\* flight. When the reorder's handler resumes with a success, the in-memory
\* list holds the columns it held before, those created meanwhile included,
\* and no undefined entry in place of one deleted meanwhile.
C29_ReorderKeepsExistingColumns ==
    [][\A i \in 1..Len(net) :
          (ColumnsReordered(i) /\ net[i].status = "ok") =>
              /\ Entries(columns') = Entries(columns)
              /\ ~HasUndefined(columns')]_vars

\* C30: column creation never brings the in-memory board above MAX_COLUMNS
\* columns, and the column form sends no createColumn call from a board
\* that holds MAX_COLUMNS columns, also when the form is submitted again
\* while an earlier creation is in flight.
C30_NeverAboveMaxColumns ==
    [][/\ Len(columns') <= MAX_COLUMNS
       /\ \A name \in ColumnNames :
            (ColumnFormSubmit(name) /\ Len(columns) >= MAX_COLUMNS) => net' = net]_vars

\* C31: loadBoard asks for the user before the board: a getBoard call is
\* sent only by a loadBoard that resumes with the user. When getCurrentUser
\* has failed no getBoard call is sent; when either call has failed the
\* error view is shown and the in-memory columns are what they were; when
\* both have succeeded the in-memory columns are the columns of the getBoard
\* response.
C31_ReloadReplacesOnlyOnSuccess ==
    [][/\ InFlight(net', "getBoard") > InFlight(net, "getBoard") =>
            \E i \in 1..Len(net) : LoadBoardUser(i) /\ net[i].status = "ok"
       /\ \A i \in 1..Len(net) :
            (LoadBoardUser(i) /\ net[i].status # "ok") =>
                /\ InFlight(net', "getBoard") = InFlight(net, "getBoard")
                /\ view' = "error"
                /\ columns' = columns
       /\ \A i \in 1..Len(net) :
            LoadBoardData(i) =>
                IF net[i].status = "ok"
                THEN columns' = net[i].data
                ELSE view' = "error" /\ columns' = columns]_vars

\* A reload of a loaded board has failed, the board was kept, and the retry
\* has put the board of the response in memory.
C31_Witness ==
    /\ lastOp.op = "getBoard" /\ lastOp.status = "ok"
    /\ faults = 1
    /\ view = "board"
    /\ columns = lastOp.data
    /\ columns = BoardOf(server)

\* C32: the in-memory name of a column changes only when finishRename
\* resumes after a successful updateColumn for that column, and then to the
\* name that was sent, which is not empty and has no blanks around it. An
\* input left empty, blank, unchanged or by Escape sends no call, a failed
\* call leaves every name as it was, and no column name is ever empty.
C32_NameChangesOnlyAfterUpdate ==
    [][/\ \A c \in 1..Len(columns) :
            columns'[c].name # columns[c].name =>
                \E i \in 1..Len(net) :
                    /\ ColumnRenamed(i)
                    /\ net[i].status = "ok"
                    /\ net[i].col = columns[c].id
                    /\ columns'[c].name = net[i].data[1].name
                    /\ columns'[c].name # <<>>
                    /\ Trim(columns'[c].name) = columns'[c].name
       /\ \A k \in 1..Len(dom), value \in Typed \cup {Backlog}, escape \in BOOLEAN :
            (/\ FinishRename(k, value, escape)
             /\ \/ escape
                \/ Trim(value) = <<>>
                \/ value = dom[k].input[1].currentName) => net' = net
       /\ \A i \in 1..Len(net) :
            (ColumnRenamed(i) /\ net[i].status # "ok") => columns' = columns
       /\ \A c \in 1..Len(columns') : columns'[c].name # <<>>]_vars

\* The first column has been renamed from an input left with blanks around
\* the new name, after an earlier rename of it was refused.
C32_Witness ==
    /\ lastOp.op = "updateColumn" /\ lastOp.status = "ok"
    /\ columns[1].name = <<"T">>
    /\ server.names[1] = <<"T">>
    /\ faults = 1
    /\ dom[1].title = <<TitleText(<<"T">>, 2)>>

\* The tasks of an in-memory board, column by column, without the one with
\* this id.
TasksBut(cols, task) ==
    [c \in 1..Len(cols) |-> SelectSeq(cols[c].tasks, LAMBDA t : t.id # task)]

\* All the task entries of an in-memory board.
AllTasks(cols) ==
    UNION {{<<c, j>> : j \in 1..Len(cols[c].tasks)} : c \in 1..Len(cols)}

\* C33: when handleDeleteTask resumes after a successful deleteTask, the
\* in-memory board loses exactly one task, the one with the deleted id, and
\* every other task stays in its column, in its place among the others; the
\* click, answered yes or no, and a failed call leave the in-memory board as
\* it was.
C33_DeleteRemovesExactlyOne ==
    [][/\ \A el \in TaskIds, agreed \in BOOLEAN :
            DeleteTaskClick(el, agreed) => columns' = columns
       /\ \A i \in 1..Len(net) :
            TaskDeleted(i) =>
                IF net[i].status = "ok"
                THEN /\ Cardinality(AllTasks(columns')) = Cardinality(AllTasks(columns)) - 1
                     /\ Occurrences(columns', net[i].task) = 0
                     /\ TasksBut(columns', net[i].task) = TasksBut(columns, net[i].task)
                     /\ Ids(columns') = Ids(columns)
                ELSE columns' = columns]_vars

\* C33, amended: when handleDeleteTask resumes after a successful
\* deleteTask, the in-memory board loses the task with the deleted id if it
\* still holds it, which is then one task, and nothing else; a board that a
\* reload has replaced since the click holds the task no more and is left as
\* it is. Every other task stays in its column, in its place among the
\* others; the click, answered yes or no, and a failed call leave the
\* in-memory board as it was.
C33_DeleteRemovesTheTaskOnly ==
    [][/\ \A el \in TaskIds, agreed \in BOOLEAN :
            DeleteTaskClick(el, agreed) => columns' = columns
       /\ \A i \in 1..Len(net) :
            TaskDeleted(i) =>
                IF net[i].status = "ok"
                THEN /\ Occurrences(columns, net[i].task) <= 1
                     /\ Cardinality(AllTasks(columns')) =
                            Cardinality(AllTasks(columns)) - Occurrences(columns, net[i].task)
                     /\ Occurrences(columns', net[i].task) = 0
                     /\ TasksBut(columns', net[i].task) = TasksBut(columns, net[i].task)
                     /\ Ids(columns') = Ids(columns)
                     /\ Occurrences(columns, net[i].task) = 0 => columns' = columns
                ELSE columns' = columns]_vars

\* Task 101 was deleted with the API's agreement: the first column is left
\* with task 102, the second with task 201.
C33_Witness ==
    /\ lastOp.op = "deleteTask" /\ lastOp.status = "ok"
    /\ Len(columns) = 3
    /\ Ids(columns[1].tasks) = <<102>>
    /\ Ids(columns[2].tasks) = <<201>>
    /\ ~ServerHolds(server, 101)

\* C34: on index.html the login submit button is disabled exactly while a
\* login call is in flight, and the listener that resumes with the call's
\* answer leaves it enabled, whether the login succeeded or failed.
C34_LoginButtonDisabledWhilePending ==
    [][/\ dom'.loginSubmit.disabled <=> InFlight(net', "login") > 0
       /\ \A i \in 1..Len(net), resp \in Responses :
            LoginFormSettled(i, resp) =>
                /\ dom.loginSubmit.disabled
                /\ ~dom'.loginSubmit.disabled
                /\ dom'.loginSubmit.textContent = "Sign In"]_vars

\* A login has succeeded: board.html is assigned, the token stored and the
\* button enabled again, after an earlier login was refused.
C34_Witness ==
    /\ lastOp.op = "login" /\ lastOp.status = "resolved"
    /\ location = <<"board.html">>
    /\ IsAuthenticated(token)
    /\ gestures = 2
    /\ dom.loginError.textContent = "Invalid credentials"
    /\ dom.loginSubmit = Button(FALSE, "Sign In")


====
